---- MODULE Spec2Model ----
(***************************************************************************)
(* The garbage collected allocators of mod2lib: the arena allocator for    *)
(* DagNodes (core/allocator/node_allocator.rs), the bucket allocator for   *)
(* node-owned storage (core/allocator/storage_allocator.rs, bucket.rs),    *)
(* GCVector (gc_vector.rs), the DagNode operations that use them           *)
(* (api/dag_node.rs, core/dag_node_core.rs) and the root list              *)
(* (core/root_container.rs).                                               *)
(*                                                                         *)
(* Memory is modelled down to the machine word.  A node pointer is the     *)
(* global index of its slot (arena * ARENA_SIZE + offset); a storage       *)
(* pointer is a (bucket, byte offset) pair; a bucket's bytes are a         *)
(* sequence of words.  Buckets are never freed, so a stale storage pointer *)
(* still reads whatever the words hold now.                                *)
(***************************************************************************)
EXTENDS Integers, Sequences, FiniteSets, TLC

\* ---------------------------------------------------------------------
\* Allocator parameters.  The tuning parameters are scaled down from the
\* values in the source so that arenas, buckets and thresholds fill up
\* after a handful of allocations; the object sizes are the real ones.
\* ---------------------------------------------------------------------
ARENA_SIZE == 2
RESERVE_SIZE == 1
SMALL_MODEL_SLOP == 2
BIG_MODEL_SLOP == 1
LOWER_BOUND == 4
UPPER_BOUND == 6
BUCKET_MULTIPLIER == 2
MIN_BUCKET_SIZE == 72
INITIAL_TARGET == 56
TARGET_MULTIPLIER == 2

\* size_of::<usize>(), size_of::<GCVector<DagNodePtr>>(), size_of::<DagNodePtr>()
WORD_SIZE == 8
VECTOR_HEADER_SIZE == 32
NODE_PTR_SIZE == 16

\* ---------------------------------------------------------------------
\* Bounds of the model
\* ---------------------------------------------------------------------
MaxAllocs == 2
MaxCollections == 3
MaxRoots == 2
MaxArity == 2
MaxInserts == 3
SizingFirstActive == 23482300
SizingLastActive == 23482400
MaxSizingExtra == 1
MaxRunAllocs == 5
MaxChain == 4
MaxVectorArity == 3
MaxVectorAllocs == 2
MaxCopyCapacity == 3
MaxStorageBytes == 9
MaxStorageInUse == 64
NumThreads == 2
MaxSweepAllocs == 3
MaxThreadAllocs == 4
MaxRootContainers == 3

NullPtr == 0 - 2          \* a null node pointer or arena pointer
NoBucket == 0             \* Option<NonNull<Bucket>>::None
Huge == 1000 * ARENA_SIZE \* a pointer's bits read as a usize

Min(a, b) == IF a < b THEN a ELSE b
Max(a, b) == IF a > b THEN a ELSE b
CeilDiv(a, b) == (a + b - 1) \div b

\* ---------------------------------------------------------------------
\* Machine words held in bucket storage and in DagNodeCore::args
\* ---------------------------------------------------------------------
IntWord(v)      == [k |-> "int",  a |-> v, b |-> 0]
AddrWord(bk, o) == [k |-> "addr", a |-> bk, b |-> o]
NodeWord(n)     == [k |-> "node", a |-> n, b |-> 0]
VtableWord      == [k |-> "vt",   a |-> 0, b |-> 0]
JunkWord        == [k |-> "junk", a |-> 0, b |-> 0]
NullWord        == IntWord(0)

\* A word read as a usize.
AsInt(w) == IF w.k = "int" THEN w.a ELSE Huge

\* ---------------------------------------------------------------------
\* bucket.rs
\* ---------------------------------------------------------------------
BucketWithCapacity(capacity) ==
  [ cap         |-> capacity,
    data        |-> [i \in 1..(capacity \div WORD_SIZE) |-> NullWord],
    bytes_free  |-> capacity,
    next_free   |-> 0,
    next_bucket |-> NoBucket ]

\* Bucket::allocate: the bucket after the bump, and the offset handed out.
BucketAllocate(bucket, bytes_needed) ==
  LET allocation    == bucket.next_free
      new_next_free == allocation + bytes_needed
      align_offset  == (8 - (new_next_free % 8)) % 8
      bytes_used    == bytes_needed + align_offset
  IN  [ bucket |-> [bucket EXCEPT
                      !.next_free  = new_next_free + align_offset,
                      !.bytes_free = IF bytes_used > bucket.bytes_free
                                     THEN 0 ELSE bucket.bytes_free - bytes_used],
        off    |-> allocation ]

BucketReset(bucket) ==
  [bucket EXCEPT !.next_free = 0, !.bytes_free = bucket.cap]

\* ---------------------------------------------------------------------
\* The heap: the operators below take and return a record H with
\*   slots   the DagNodeCore slots of all arenas, by global index
\*   na      the NodeAllocator's fields        sa   the StorageAllocator's
\*   bk      the buckets ever created, by id   anc  ACTIVE_NODE_COUNT
\*   status  "ok", or how the call ended: "panic" (a failed assertion or
\*           bounds check) or "ub" (a wild pointer was dereferenced)
\*   res     the value the last call returned
\*   dtor    for each slot, how often drop_in_place ran on it since it was
\*           last handed out;  copies: the vectors copied by mark()
\* ---------------------------------------------------------------------
Fail(H, how) == IF H.status = "ok" THEN [H EXCEPT !.status = how] ELSE H

\* `let v = <statement>;`: the value a statement leaves, named for the
\* statements F that follow it.
Bind(v, F(_)) == F(v)

InBucket(H, addr, delta) ==
  /\ addr.k = "addr"
  /\ addr.a \in DOMAIN H.bk
  /\ addr.b + delta >= 0
  /\ addr.b + delta + WORD_SIZE <= H.bk[addr.a].cap

\* The word at byte `delta` past the storage pointer `addr`.
Rd(H, addr, delta) ==
  IF InBucket(H, addr, delta)
  THEN H.bk[addr.a].data[((addr.b + delta) \div WORD_SIZE) + 1]
  ELSE JunkWord

Wr(H, addr, delta, w) ==
  IF H.status # "ok" THEN H
  ELSE IF ~InBucket(H, addr, delta) THEN Fail(H, "ub")
  ELSE [H EXCEPT !.bk[addr.a].data[((addr.b + delta) \div WORD_SIZE) + 1] = w]

\* ---------------------------------------------------------------------
\* storage_allocator.rs
\* ---------------------------------------------------------------------
NewStorageAllocator ==
  [ need_to_collect_garbage |-> FALSE,
    bucket_count            |-> 0,
    bucket_list             |-> NoBucket,
    unused_list             |-> NoBucket,
    storage_in_use          |-> 0,
    total_bytes_allocated   |-> 0,
    old_storage_in_use      |-> 0,
    target                  |-> INITIAL_TARGET ]

\* The buckets of the list that starts at `b`, in list order.
RECURSIVE BucketChain(_, _, _)
BucketChain(bk, b, fuel) ==
  IF b = NoBucket \/ fuel = 0 THEN << >>
  ELSE << b >> \o BucketChain(bk, bk[b].next_bucket, fuel - 1)

ChainOf(H, head) == BucketChain(H.bk, head, Cardinality(DOMAIN H.bk) + 1)
SeqToSet(s) == { s[i] : i \in DOMAIN s }

\* The first bucket of the chain with room for bytes_needed, or NoBucket.
FirstFit(H, chain, bytes_needed) ==
  LET fits == { i \in DOMAIN chain : H.bk[chain[i]].bytes_free >= bytes_needed }
  IN  IF fits = {} THEN NoBucket
      ELSE chain[CHOOSE i \in fits : \A j \in fits : i <= j]

\* StorageAllocator::slow_allocate_storage
slow_allocate_storage(H, bytes_needed) ==
  Bind(ChainOf(H, H.sa.unused_list), LAMBDA unused :
  Bind(FirstFit(H, unused, bytes_needed), LAMBDA b :
    IF b # NoBucket
    THEN \* move the bucket from the unused list to the head of the in-use list
      Bind(CHOOSE j \in DOMAIN unused : unused[j] = b /\ \A m \in 1..(j-1) : unused[m] # b,
           LAMBDA i :
        LET nxt  == H.bk[b].next_bucket
            bk1  == IF i > 1
                    THEN [H.bk EXCEPT ![unused[i-1]].next_bucket = nxt]
                    ELSE H.bk
            ul   == IF i > 1 THEN H.sa.unused_list ELSE nxt
        IN  Bind(BucketAllocate([bk1[b] EXCEPT !.next_bucket = H.sa.bucket_list], bytes_needed),
                 LAMBDA a :
              [H EXCEPT !.bk  = [bk1 EXCEPT ![b] = a.bucket],
                        !.sa  = [H.sa EXCEPT !.unused_list = ul, !.bucket_list = b],
                        !.res = AddrWord(b, a.off)]))
    ELSE \* create a new bucket
      LET size == Max(BUCKET_MULTIPLIER * bytes_needed, MIN_BUCKET_SIZE)
          id   == Cardinality(DOMAIN H.bk) + 1
      IN  Bind(BucketAllocate(BucketWithCapacity(size), bytes_needed), LAMBDA a :
            [H EXCEPT !.bk  = H.bk @@ (id :> [a.bucket EXCEPT !.next_bucket = H.sa.bucket_list]),
                      !.sa  = [H.sa EXCEPT !.bucket_count = @ + 1,
                                           !.total_bytes_allocated = @ + size,
                                           !.bucket_list = id],
                      !.res = AddrWord(id, a.off)])))

\* allocate_storage with a flag that follows the target down as well as up
allocate_storage_following_target(H, bytes_needed) ==
  IF H.status # "ok" THEN H
  ELSE IF bytes_needed % WORD_SIZE # 0 THEN Fail(H, "panic")
  ELSE
    LET in_use == H.sa.storage_in_use + bytes_needed
    IN  Bind([H EXCEPT !.sa.storage_in_use = in_use,
                       !.sa.need_to_collect_garbage = in_use > H.sa.target],
             LAMBDA H1 :
        Bind(FirstFit(H1, ChainOf(H1, H1.sa.bucket_list), bytes_needed), LAMBDA b :
          IF b # NoBucket
          THEN Bind(BucketAllocate(H1.bk[b], bytes_needed), LAMBDA a :
                 [H1 EXCEPT !.bk[b] = a.bucket, !.res = AddrWord(b, a.off)])
          ELSE slow_allocate_storage(H1, bytes_needed)))

\* allocate_storage whose assertion follows its accounting
allocate_storage_asserting_late(H, bytes_needed) ==
  IF H.status # "ok" THEN H
  ELSE
    LET in_use == H.sa.storage_in_use + bytes_needed
    IN  Bind([H EXCEPT !.sa.storage_in_use = in_use,
                       !.sa.need_to_collect_garbage = IF in_use > H.sa.target THEN TRUE ELSE @],
             LAMBDA H1 :
        IF bytes_needed % WORD_SIZE # 0 THEN Fail(H1, "panic")
        ELSE
        Bind(FirstFit(H1, ChainOf(H1, H1.sa.bucket_list), bytes_needed), LAMBDA b :
          IF b # NoBucket
          THEN Bind(BucketAllocate(H1.bk[b], bytes_needed), LAMBDA a :
                 [H1 EXCEPT !.bk[b] = a.bucket, !.res = AddrWord(b, a.off)])
          ELSE slow_allocate_storage(H1, bytes_needed)))

\* allocate_storage that asks the head of the in-use list only
allocate_storage_from_head(H, bytes_needed) ==
  IF H.status # "ok" THEN H
  ELSE IF bytes_needed % WORD_SIZE # 0 THEN Fail(H, "panic")
  ELSE
    LET in_use == H.sa.storage_in_use + bytes_needed
    IN  Bind([H EXCEPT !.sa.storage_in_use = in_use,
                       !.sa.need_to_collect_garbage = IF in_use > H.sa.target THEN TRUE ELSE @],
             LAMBDA H1 :
        Bind(H1.sa.bucket_list, LAMBDA b :
          IF b # NoBucket /\ H1.bk[b].bytes_free >= bytes_needed
          THEN Bind(BucketAllocate(H1.bk[b], bytes_needed), LAMBDA a :
                 [H1 EXCEPT !.bk[b] = a.bucket, !.res = AddrWord(b, a.off)])
          ELSE slow_allocate_storage(H1, bytes_needed)))

\* StorageAllocator::allocate_storage
allocate_storage(H, bytes_needed) ==
  IF H.status # "ok" THEN H
  ELSE IF bytes_needed % WORD_SIZE # 0 THEN Fail(H, "panic")
  ELSE
    LET in_use == H.sa.storage_in_use + bytes_needed
    IN  Bind([H EXCEPT !.sa.storage_in_use = in_use,
                       !.sa.need_to_collect_garbage = IF in_use > H.sa.target THEN TRUE ELSE @],
             LAMBDA H1 :
        Bind(FirstFit(H1, ChainOf(H1, H1.sa.bucket_list), bytes_needed), LAMBDA b :
          IF b # NoBucket
          THEN Bind(BucketAllocate(H1.bk[b], bytes_needed), LAMBDA a :
                 [H1 EXCEPT !.bk[b] = a.bucket, !.res = AddrWord(b, a.off)])
          ELSE slow_allocate_storage(H1, bytes_needed)))

\* StorageAllocator::_prepare_to_mark
prepare_to_mark(H) ==
  [H EXCEPT !.sa = [H.sa EXCEPT !.old_storage_in_use = H.sa.storage_in_use,
                                !.bucket_list = H.sa.unused_list,
                                !.unused_list = NoBucket,
                                !.storage_in_use = 0,
                                !.need_to_collect_garbage = FALSE]]

\* StorageAllocator::_sweep_garbage
sweep_garbage(H) ==
  LET chain == SeqToSet(ChainOf(H, H.sa.bucket_list))
  IN  [H EXCEPT !.sa.unused_list = H.sa.bucket_list,
                !.bk = [b \in DOMAIN H.bk |-> IF b \in chain THEN BucketReset(H.bk[b]) ELSE H.bk[b]],
                !.sa.target = Max(H.sa.target, TARGET_MULTIPLIER * H.sa.storage_in_use)]

\* ---------------------------------------------------------------------
\* gc_vector.rs.  A GCVector at storage pointer p is four words:
\* length, capacity, data.ptr, data.len; its elements are fat pointers of
\* two words each (slot pointer, vtable).
\* ---------------------------------------------------------------------
VecLength(H, p)   == AsInt(Rd(H, p, 0))
VecCapacity(H, p) == AsInt(Rd(H, p, 8))
VecDataPtr(H, p)  == Rd(H, p, 16)
VecDataLen(H, p)  == AsInt(Rd(H, p, 24))

\* GCVector::with_capacity
with_capacity(H, capacity) ==
  Bind(allocate_storage(H, VECTOR_HEADER_SIZE), LAMBDA H1 :
    LET p  == H1.res
        H2 == Wr(Wr(H1, p, 0, IntWord(0)), p, 8, IntWord(capacity))
    IN  Bind(allocate_storage(H2, capacity * NODE_PTR_SIZE), LAMBDA H3 :
          LET d == H3.res
          IN  Bind(Wr(Wr(H3, p, 16, d), p, 24, IntWord(capacity)), LAMBDA H4 :
                IF H4.status = "ok" THEN [H4 EXCEPT !.res = p] ELSE H4)))

\* data[i] = item, for a slice `data` of `len` elements
WrElem(H, data, len, i, w0, w1) ==
  IF H.status # "ok" THEN H
  ELSE IF i >= len THEN Fail(H, "panic")
  ELSE IF data.k # "addr" THEN Fail(H, "ub")
  ELSE Wr(Wr(H, data, i * NODE_PTR_SIZE, w0), data, i * NODE_PTR_SIZE + 8, w1)

\* GCVector::push
push(H, p, node) ==
  IF H.status # "ok" THEN H
  ELSE IF p.k # "addr" \/ ~InBucket(H, p, 24) THEN Fail(H, "ub")
  ELSE IF VecLength(H, p) = VecCapacity(H, p) THEN Fail(H, "panic")
  ELSE Bind(VecLength(H, p), LAMBDA len :
         Wr(WrElem(H, VecDataPtr(H, p), VecDataLen(H, p), len, NodeWord(node), VtableWord),
            p, 0, IntWord(len + 1)))

\* the loop of GCVector::from_slice: data[i] = item for the items of the
\* source slice, in order, reading each source element when it is copied
RECURSIVE CopyElems(_, _, _, _, _)
CopyElems(H, src, dst, i, n) ==
  IF H.status # "ok" \/ i >= n THEN H
  ELSE IF ~InBucket(H, src, i * NODE_PTR_SIZE + 8) THEN Fail(H, "ub")
  ELSE CopyElems(WrElem(H, dst, n, i, Rd(H, src, i * NODE_PTR_SIZE), Rd(H, src, i * NODE_PTR_SIZE + 8)),
                 src, dst, i + 1, n)

\* GCVector::from_slice, for a slice of n elements that starts at src
from_slice(H, src, n) ==
  Bind(with_capacity(H, n), LAMBDA H1 :
    Bind(H1.res, LAMBDA q :
      Bind(Wr(CopyElems(H1, src, VecDataPtr(H1, q), 0, n), q, 0, IntWord(n)), LAMBDA H3 :
        IF H3.status = "ok" THEN [H3 EXCEPT !.res = q] ELSE H3)))

\* GCVector::copy_with_capacity.
\* When the new vector is allocated on top of `self` (the bucket that holds
\* `self` was reset), the writes through the new `&mut` alias the shared
\* `&self`: the final read of self.length then finds either the value
\* from before the call (`cached`: the compiler kept it, as `&self` allows)
\* or the value now in memory.
copy_with_capacity(H, p, new_capacity, cached) ==
  IF H.status # "ok" THEN H
  ELSE IF p.k # "addr" \/ ~InBucket(H, p, 24) THEN Fail(H, "ub")
  ELSE IF new_capacity > VecCapacity(H, p)
  THEN Bind(VecLength(H, p), LAMBDA len :
       Bind(VecDataPtr(H, p), LAMBDA src :
       Bind(with_capacity(H, new_capacity), LAMBDA H1 :
         LET q == H1.res
         IN  Bind(Wr(H1, q, 0, IntWord(len)), LAMBDA H2 :
             Bind(IF len > VecDataLen(H2, p) \/ len > new_capacity THEN Fail(H2, "panic")
                  ELSE IF len > 0 /\ src.k # "addr" THEN Fail(H2, "ub")
                  ELSE CopyElems(H2, src, VecDataPtr(H2, q), 0, len),
                  LAMBDA H3 :
               IF H3.status = "ok" THEN [H3 EXCEPT !.res = q] ELSE H3)))))
  ELSE IF new_capacity > VecDataLen(H, p) THEN Fail(H, "panic")
  ELSE IF new_capacity > 0 /\ VecDataPtr(H, p).k # "addr" THEN Fail(H, "ub")
  ELSE Bind(from_slice(H, VecDataPtr(H, p), new_capacity), LAMBDA H3 :
         LET q == H3.res
         IN  Bind(IF cached THEN VecLength(H, p) ELSE VecLength(H3, p), LAMBDA len :
             Bind(Wr(H3, q, 0, IntWord(Min(len, new_capacity))), LAMBDA H4 :
               IF H4.status = "ok" THEN [H4 EXCEPT !.res = q] ELSE H4)))

\* GCVector::copy
copy(H, p, cached) == copy_with_capacity(H, p, VecCapacity(H, p), cached)

\* ---------------------------------------------------------------------
\* arena.rs, dag_node_core.rs.  A slot of an arena holds a DagNodeCore.
\* Arena::allocate_new_arena leaves the slots uninitialised (MaybeUninit):
\* `init` is FALSE until the slot is first written or its flags are first
\* read, and what such a first read finds is any bit pattern (Garbage).
\* ---------------------------------------------------------------------
JunkSymbol == 0 - 1

UninitSlot ==
  [ init |-> FALSE, symbol |-> JunkSymbol, args |-> JunkWord, marked |-> FALSE, nd |-> FALSE ]

Garbage == [ marked : BOOLEAN, nd : BOOLEAN, args_null : BOOLEAN ]

\* The slot as the first read of its uninitialised bytes finds it.
Materialise(H, i, g) ==
  IF H.slots[i].init THEN H
  ELSE [H EXCEPT !.slots[i] = [ init   |-> TRUE,
                                symbol |-> JunkSymbol,
                                args   |-> IF g.args_null THEN NullWord ELSE JunkWord,
                                marked |-> g.marked,
                                nd     |-> g.nd ],
                 !.uninit_read = TRUE]

\* DagNodeCore::simple_reuse
simple_reuse(slot) == ~slot.marked /\ ~slot.nd

\* drop_in_place on a slot: DagNodeCore has no Drop code, so nothing is
\* written; the run of the destructor is counted.
drop_in_place(H, i) == [H EXCEPT !.dtor[i] = @ + 1]

\* ---------------------------------------------------------------------
\* node_allocator.rs.  Arenas are numbered in list order from 0, so
\* first_arena is arena 0, last_arena is arena_count - 1 and the
\* next_arena of arena a is a + 1.  next_node, end_pointer and
\* last_active_node are offsets into current_arena (last_active_arena).
\* ---------------------------------------------------------------------
NewNodeAllocator ==
  [ need_to_collect_garbage         |-> FALSE,
    arena_count                     |-> 0,
    current_arena_past_active_arena |-> TRUE,
    current_arena                   |-> NullPtr,
    next_node                       |-> NullPtr,
    end_pointer                     |-> NullPtr,
    last_active_arena               |-> NullPtr,
    last_active_node                |-> NullPtr ]

SlotAt(arena, offset) == arena * ARENA_SIZE + offset
first_arena(na) == IF na.arena_count = 0 THEN NullPtr ELSE 0
last_arena(na)  == IF na.arena_count = 0 THEN NullPtr ELSE na.arena_count - 1
next_arena(na, arena) == IF arena + 1 < na.arena_count THEN arena + 1 ELSE NullPtr

\* NodeAllocator::allocate_new_arena; the new arena is H.res
allocate_new_arena(H) ==
  LET n   == H.na.arena_count
      new == SlotAt(n, 0) .. SlotAt(n, ARENA_SIZE - 1)
  IN  [H EXCEPT !.slots = @ @@ [i \in new |-> UninitSlot],
                !.dtor  = @ @@ [i \in new |-> 0],
                !.na.arena_count = n + 1,
                !.res = n]

RECURSIVE slow_new_dag_node(_, _)
RECURSIVE SlowScan(_, _, _)

\* The lazy sweep loop at the end of slow_new_dag_node's outer loop.
SlowScan(H, cursor, g) ==
  IF cursor = H.na.end_pointer THEN slow_new_dag_node(H, g)
  ELSE LET i == SlotAt(H.na.current_arena, cursor)
       IN  Bind(Materialise(H, i, g), LAMBDA H1 :
             IF simple_reuse(H1.slots[i]) THEN [H1 EXCEPT !.res = cursor]
             ELSE IF ~H1.slots[i].marked THEN [drop_in_place(H1, i) EXCEPT !.res = cursor]
             ELSE SlowScan([H1 EXCEPT !.slots[i].marked = FALSE], cursor + 1, g))

\* slow_new_dag_node that gives up, instead of appending an arena, when
\* the reserve of the last arena is used up
slow_new_dag_node_without_growth(H, g) ==
  IF H.na.current_arena = NullPtr
  THEN
    Bind(allocate_new_arena(H), LAMBDA H1 :
      [H1 EXCEPT !.na.current_arena = H1.res,
                 !.na.end_pointer   = ARENA_SIZE - RESERVE_SIZE,
                 !.res = 0])
  ELSE
    LET arena == next_arena(H.na, H.na.current_arena)
        past  == IF H.na.current_arena = H.na.last_active_arena
                 THEN TRUE ELSE H.na.current_arena_past_active_arena
    IN  IF arena = NullPtr
        THEN
          Bind([H EXCEPT !.na.need_to_collect_garbage = TRUE], LAMBDA H1 :
            IF H1.na.end_pointer # ARENA_SIZE
            THEN
              Bind([H1 EXCEPT !.na.next_node   = H1.na.end_pointer,
                              !.na.end_pointer = ARENA_SIZE],
                   LAMBDA H2 : SlowScan(H2, H2.na.next_node, g))
            ELSE [Fail(H1, "panic") EXCEPT !.res = 0])
        ELSE
          Bind([H EXCEPT
                  !.na.current_arena_past_active_arena = past,
                  !.na.current_arena = arena,
                  !.na.next_node     = 0,
                  !.na.end_pointer   = IF next_arena(H.na, arena) = NullPtr
                                       THEN ARENA_SIZE - RESERVE_SIZE
                                       ELSE ARENA_SIZE],
               LAMBDA H1 : SlowScan(H1, H1.na.next_node, g))

\* NodeAllocator::slow_new_dag_node: one turn of its outer loop.  The
\* offset of the node found, in the then current arena, is H.res.
slow_new_dag_node(H, g) ==
  IF H.na.current_arena = NullPtr
  THEN \* allocate the first arena
    Bind(allocate_new_arena(H), LAMBDA H1 :
      [H1 EXCEPT !.na.current_arena = H1.res,
                 !.na.end_pointer   = ARENA_SIZE - RESERVE_SIZE,
                 !.res = 0])
  ELSE
    LET arena == next_arena(H.na, H.na.current_arena)
        past  == IF H.na.current_arena = H.na.last_active_arena
                 THEN TRUE ELSE H.na.current_arena_past_active_arena
    IN  IF arena = NullPtr
        THEN
          Bind([H EXCEPT !.na.need_to_collect_garbage = TRUE], LAMBDA H1 :
            IF H1.na.end_pointer # ARENA_SIZE
            THEN \* use up the reserve
              Bind([H1 EXCEPT !.na.next_node   = H1.na.end_pointer,
                              !.na.end_pointer = ARENA_SIZE],
                   LAMBDA H2 : SlowScan(H2, H2.na.next_node, g))
            ELSE \* allocate a new arena
              Bind(allocate_new_arena([H1 EXCEPT !.na.current_arena_past_active_arena = past]),
                   LAMBDA H2 :
                [H2 EXCEPT !.na.current_arena = H2.res,
                           !.na.end_pointer   = ARENA_SIZE,
                           !.res = 0]))
        ELSE \* use the next arena
          Bind([H EXCEPT
                  !.na.current_arena_past_active_arena = past,
                  !.na.current_arena = arena,
                  !.na.next_node     = 0,
                  !.na.end_pointer   = IF next_arena(H.na, arena) = NullPtr
                                       THEN ARENA_SIZE - RESERVE_SIZE
                                       ELSE ARENA_SIZE],
               LAMBDA H1 : SlowScan(H1, H1.na.next_node, g))

\* The loop of allocate_dag_node: the lazy sweep from current_node on.
RECURSIVE AllocScan(_, _, _)

\* the loop without the test of the Marked flag: the first slot is taken
AllocScanTakesMarked(H, current_node, g) ==
  IF (current_node = NullPtr /\ H.na.end_pointer = NullPtr) \/ current_node = H.na.end_pointer
  THEN slow_new_dag_node(H, g)
  ELSE LET i == SlotAt(H.na.current_arena, current_node)
       IN  Bind(Materialise(H, i, g), LAMBDA H1 :
             IF ~H1.slots[i].nd THEN [H1 EXCEPT !.res = current_node]
             ELSE [drop_in_place(H1, i) EXCEPT !.res = current_node])

\* the loop that steps over a Marked slot without clearing its flags
AllocScanLeavingMarked(H, current_node, g) ==
  IF (current_node = NullPtr /\ H.na.end_pointer = NullPtr) \/ current_node = H.na.end_pointer
  THEN slow_new_dag_node(H, g)
  ELSE LET i == SlotAt(H.na.current_arena, current_node)
       IN  Bind(Materialise(H, i, g), LAMBDA H1 :
             IF simple_reuse(H1.slots[i]) THEN [H1 EXCEPT !.res = current_node]
             ELSE IF ~H1.slots[i].marked THEN [drop_in_place(H1, i) EXCEPT !.res = current_node]
             ELSE AllocScan(H1, current_node + 1, g))

AllocScan(H, current_node, g) ==
  IF (current_node = NullPtr /\ H.na.end_pointer = NullPtr) \/ current_node = H.na.end_pointer
  THEN slow_new_dag_node(H, g)
  ELSE LET i == SlotAt(H.na.current_arena, current_node)
       IN  Bind(Materialise(H, i, g), LAMBDA H1 :
             IF simple_reuse(H1.slots[i]) THEN [H1 EXCEPT !.res = current_node]
             ELSE IF ~H1.slots[i].marked THEN [drop_in_place(H1, i) EXCEPT !.res = current_node]
             ELSE AllocScan([H1 EXCEPT !.slots[i].marked = FALSE, !.slots[i].nd = FALSE],
                            current_node + 1, g))

\* NodeAllocator::allocate_dag_node.  H.res is the slot returned;
\* H.returned is that slot as the caller receives it.
allocate_dag_node(H, g) ==
  IF H.status # "ok" THEN H
  ELSE
    Bind(AllocScan(H, H.na.next_node, g), LAMBDA H1 :
      LET i == SlotAt(H1.na.current_arena, H1.res)
      IN  [H1 EXCEPT !.na.next_node = H1.res + 1,
                     !.anc          = @ + 1,
                     !.res          = i,
                     !.returned     = H1.slots[i],
                     !.dtor_epoch   = Max(@, H1.dtor[i]),
                     !.dtor[i]      = 0])

\* NodeAllocator::sweep_arenas.  The two nested loops visit, in order, the
\* slots from (current_arena, next_node) up to and including
\* (last_active_arena, last_active_node): with arenas numbered in list
\* order these are the global indices lo..hi.
SweepRange(H) ==
  IF H.na.current_arena_past_active_arena THEN {}
  ELSE SlotAt(H.na.current_arena, H.na.next_node)
         .. SlotAt(H.na.last_active_arena, H.na.last_active_node)

\* sweep_arenas without the reset of the flags of a destructed slot
sweep_arenas_keeping_flags(H) ==
  IF H.status # "ok" THEN H
  ELSE IF /\ ~H.na.current_arena_past_active_arena
          /\ H.na.last_active_arena < H.na.current_arena
  THEN Fail(H, "ub")
  ELSE IF \E i \in SweepRange(H) : ~H.slots[i].init
  THEN Fail([H EXCEPT !.uninit_read = TRUE], "ub")
  ELSE
    LET range  == SweepRange(H)
        marked == { i \in range : H.slots[i].marked }
        top    == CHOOSE i \in marked : \A j \in marked : j <= i
    IN  [H EXCEPT
          !.slots = [i \in DOMAIN H.slots |->
                       IF i \notin range THEN H.slots[i]
                       ELSE [H.slots[i] EXCEPT !.marked = FALSE]],
          !.dtor  = [i \in DOMAIN H.dtor |->
                       IF i \in range /\ ~H.slots[i].marked /\ H.slots[i].nd
                       THEN H.dtor[i] + 1 ELSE H.dtor[i]],
          !.na.last_active_arena = IF marked = {} THEN H.na.current_arena
                                   ELSE top \div ARENA_SIZE,
          !.na.last_active_node  = IF marked = {} THEN H.na.next_node - 1
                                   ELSE top % ARENA_SIZE]

\* sweep_arenas whose last loop stops before last_active_node
sweep_arenas_before_last_active(H) ==
  IF H.status # "ok" THEN H
  ELSE IF /\ ~H.na.current_arena_past_active_arena
          /\ H.na.last_active_arena < H.na.current_arena
  THEN Fail(H, "ub")
  ELSE IF \E i \in SweepRange(H) : ~H.slots[i].init
  THEN Fail([H EXCEPT !.uninit_read = TRUE], "ub")
  ELSE
    LET range  == SweepRange(H) \ {SlotAt(H.na.last_active_arena, H.na.last_active_node)}
        marked == { i \in range : H.slots[i].marked }
        top    == CHOOSE i \in marked : \A j \in marked : j <= i
    IN  [H EXCEPT
          !.slots = [i \in DOMAIN H.slots |->
                       IF i \notin range THEN H.slots[i]
                       ELSE IF H.slots[i].marked THEN [H.slots[i] EXCEPT !.marked = FALSE]
                       ELSE [H.slots[i] EXCEPT !.marked = FALSE, !.nd = FALSE]],
          !.dtor  = [i \in DOMAIN H.dtor |->
                       IF i \in range /\ ~H.slots[i].marked /\ H.slots[i].nd
                       THEN H.dtor[i] + 1 ELSE H.dtor[i]],
          !.na.last_active_arena = IF marked = {} THEN H.na.current_arena
                                   ELSE top \div ARENA_SIZE,
          !.na.last_active_node  = IF marked = {} THEN H.na.next_node - 1
                                   ELSE top % ARENA_SIZE]

sweep_arenas(H) ==
  IF H.status # "ok" THEN H
  ELSE IF /\ ~H.na.current_arena_past_active_arena
          /\ H.na.last_active_arena < H.na.current_arena
  THEN Fail(H, "ub")   \* the arena loop runs off the end of the list
  ELSE IF \E i \in SweepRange(H) : ~H.slots[i].init
  THEN Fail([H EXCEPT !.uninit_read = TRUE], "ub")
  ELSE
    LET range  == SweepRange(H)
        marked == { i \in range : H.slots[i].marked }
        top    == CHOOSE i \in marked : \A j \in marked : j <= i
    IN  [H EXCEPT
          !.slots = [i \in DOMAIN H.slots |->
                       IF i \notin range THEN H.slots[i]
                       ELSE IF H.slots[i].marked THEN [H.slots[i] EXCEPT !.marked = FALSE]
                       ELSE [H.slots[i] EXCEPT !.marked = FALSE, !.nd = FALSE]],
          !.dtor  = [i \in DOMAIN H.dtor |->
                       IF i \in range /\ ~H.slots[i].marked /\ H.slots[i].nd
                       THEN H.dtor[i] + 1 ELSE H.dtor[i]],
          !.na.last_active_arena = IF marked = {} THEN H.na.current_arena
                                   ELSE top \div ARENA_SIZE,
          !.na.last_active_node  = IF marked = {} THEN H.na.next_node - 1
                                   ELSE top % ARENA_SIZE]

\* ---------------------------------------------------------------------
\* api/dag_node.rs
\* ---------------------------------------------------------------------
RECURSIVE mark(_, _, _)
RECURSIVE MarkElems(_, _, _, _, _)

\* the loop of mark() over node_vector.iter_mut(): each element is read
\* when the iteration reaches it
MarkElems(H, data, i, len, cached) ==
  IF H.status # "ok" \/ i >= len THEN H
  ELSE IF ~InBucket(H, data, i * NODE_PTR_SIZE + 8) THEN Fail(H, "ub")
  ELSE Bind(Rd(H, data, i * NODE_PTR_SIZE), LAMBDA w0 :
       Bind(Rd(H, data, i * NODE_PTR_SIZE + 8), LAMBDA w1 :
         IF w0 = NullWord THEN Fail(H, "panic")
         ELSE IF w0.k # "node" \/ w1.k # "vt" THEN Fail(H, "ub")
         ELSE MarkElems(mark(H, w0.a, cached), data, i + 1, len, cached)))

\* mark() without the store of the copy's address into args
mark_leaving_args(H, n, cached) ==
  IF H.status # "ok" THEN H
  ELSE IF n \notin DOMAIN H.slots \/ ~H.slots[n].init THEN Fail(H, "ub")
  ELSE IF H.slots[n].marked THEN H
  ELSE
    Bind([H EXCEPT !.anc = @ + 1, !.slots[n].marked = TRUE], LAMBDA H1 :
      LET args == H1.slots[n].args
      IN  IF args = NullWord THEN H1
          ELSE IF H1.slots[n].nd
          THEN
            IF args.k # "addr" \/ ~InBucket(H1, args, 24) THEN Fail(H1, "ub")
            ELSE IF VecLength(H1, args) > VecDataLen(H1, args) THEN Fail(H1, "panic")
            ELSE IF VecLength(H1, args) > 0 /\ VecDataPtr(H1, args).k # "addr" THEN Fail(H1, "ub")
            ELSE
              Bind(MarkElems(H1, VecDataPtr(H1, args), 0, VecLength(H1, args), cached), LAMBDA H2 :
              Bind(copy(H2, H2.slots[n].args, cached), LAMBDA H3 :
                IF H3.status # "ok" THEN H3
                ELSE [H3 EXCEPT !.copies = Append(@, [node |-> n, from |-> args, to |-> H3.res])]))
          ELSE
            IF args.k # "node" THEN Fail(H1, "ub")
            ELSE mark(H1, args.a, cached))

\* DagNode::mark
mark(H, n, cached) ==
  IF H.status # "ok" THEN H
  ELSE IF n \notin DOMAIN H.slots \/ ~H.slots[n].init THEN Fail(H, "ub")
  ELSE IF H.slots[n].marked THEN H
  ELSE
    Bind([H EXCEPT !.anc = @ + 1, !.slots[n].marked = TRUE], LAMBDA H1 :
      LET args == H1.slots[n].args
      IN  IF args = NullWord THEN H1
          ELSE IF H1.slots[n].nd
          THEN \* the vector case
            IF args.k # "addr" \/ ~InBucket(H1, args, 24) THEN Fail(H1, "ub")
            ELSE IF VecLength(H1, args) > VecDataLen(H1, args) THEN Fail(H1, "panic")
            ELSE IF VecLength(H1, args) > 0 /\ VecDataPtr(H1, args).k # "addr" THEN Fail(H1, "ub")
            ELSE
              Bind(MarkElems(H1, VecDataPtr(H1, args), 0, VecLength(H1, args), cached), LAMBDA H2 :
              Bind(copy(H2, H2.slots[n].args, cached), LAMBDA H3 :
                IF H3.status # "ok" THEN H3
                ELSE [H3 EXCEPT !.slots[n].args = H3.res,
                                !.copies = Append(@, [node |-> n, from |-> args, to |-> H3.res])]))
          ELSE \* the singleton case
            IF args.k # "node" THEN Fail(H1, "ub")
            ELSE mark(H1, args.a, cached))

\* DagNode::insert_child
insert_child(H, n, new_child) ==
  IF H.status # "ok" THEN H
  ELSE
    LET slot == H.slots[n]
    IN  IF slot.args = NullWord
        THEN [H EXCEPT !.slots[n].args = NodeWord(new_child)]
        ELSE IF slot.nd
        THEN push(H, slot.args, new_child)
        ELSE \* the singleton case
          IF slot.args.k # "node" \/ slot.symbol = JunkSymbol THEN Fail(H, "ub")
          ELSE
            LET arity == Max(slot.symbol, 2)
            IN  Bind(with_capacity(H, arity), LAMBDA H1 :
                  LET v == H1.res
                  IN  Bind(push(push(H1, v, slot.args.a), v, new_child), LAMBDA H2 :
                        IF H2.status # "ok" THEN H2
                        ELSE [H2 EXCEPT !.slots[n].nd = TRUE, !.slots[n].args = v]))

\* DagNodeCore::with_theory, for a symbol of the given arity (a symbol is
\* identified with its arity).  H.res is the node.
with_theory(H, arity, g) ==
  Bind(allocate_dag_node(H, g), LAMBDA H1 :
    LET node == H1.res
    IN  Bind([H1 EXCEPT !.slots[node] = [ init |-> TRUE, symbol |-> JunkSymbol,
                                          args |-> NullWord, marked |-> FALSE, nd |-> FALSE ]],
             LAMBDA H2 :
        Bind(IF arity > 1
             THEN Bind(with_capacity(H2, arity), LAMBDA Hv :
                    IF Hv.status # "ok" THEN Hv
                    ELSE [Hv EXCEPT !.slots[node].args = Hv.res, !.slots[node].nd = TRUE])
             ELSE H2,
             LAMBDA H3 :
          IF H3.status # "ok" THEN H3
          ELSE [H3 EXCEPT !.slots[node].symbol = arity, !.res = node])))

\* ---------------------------------------------------------------------
\* root_container.rs.  `roots` maps the address of each RootContainer
\* that exists to its fields; `head` is LIST_HEAD; NoRoot is None / null.
\* ---------------------------------------------------------------------
NoRoot == 0

RECURSIVE MarkRootsFrom(_, _, _, _, _)
MarkRootsFrom(H, roots, root, fuel, cached) ==
  IF H.status # "ok" \/ root = NoRoot \/ fuel = 0 THEN H
  ELSE MarkRootsFrom(mark(H, roots[root].node, cached), roots, roots[root].next,
                     fuel - 1, cached)

\* mark_roots
mark_roots(H, roots, head, cached) ==
  MarkRootsFrom(H, roots, head, Cardinality(DOMAIN roots) + 1, cached)

\* ---------------------------------------------------------------------
\* node_allocator.rs: the collection
\* ---------------------------------------------------------------------
\* Natural numbers of any size, for the mantissas of f64 values: sequences
\* of digits of DigitBits bits, the lowest first, the highest not 0.
DigitBits == 15
Base == 2^DigitBits

RECURSIVE BigOf(_)
BigOf(n) == IF n = 0 THEN << >> ELSE << n % Base >> \o BigOf(n \div Base)

RECURSIVE BigToInt(_)
BigToInt(N) == IF N = << >> THEN 0 ELSE Head(N) + Base * BigToInt(Tail(N))

RECURSIVE BigTrim(_)
BigTrim(N) ==
  IF N # << >> /\ N[Len(N)] = 0 THEN BigTrim(SubSeq(N, 1, Len(N) - 1)) ELSE N

RECURSIVE BigAddCarry(_, _, _)
BigAddCarry(X, Y, c) ==
  IF X = << >> /\ Y = << >> THEN (IF c = 0 THEN << >> ELSE << c >>)
  ELSE LET t == (IF X = << >> THEN 0 ELSE Head(X)) + (IF Y = << >> THEN 0 ELSE Head(Y)) + c
       IN  << t % Base >> \o BigAddCarry(IF X = << >> THEN X ELSE Tail(X),
                                          IF Y = << >> THEN Y ELSE Tail(Y), t \div Base)

BigAdd(X, Y) == BigAddCarry(X, Y, 0)

\* N * k + c for a digit k
RECURSIVE BigMulDigit(_, _, _)
BigMulDigit(N, k, c) ==
  IF N = << >> THEN BigOf(c)
  ELSE LET t == Head(N) * k + c
       IN  << t % Base >> \o BigMulDigit(Tail(N), k, t \div Base)

RECURSIVE BigMul(_, _)
BigMul(X, Y) ==
  IF Y = << >> THEN << >>
  ELSE BigTrim(BigAdd(BigMulDigit(X, Head(Y), 0), << 0 >> \o BigMul(X, Tail(Y))))

\* quotient (untrimmed) and remainder of N by a digit d
RECURSIVE BigDivDigit(_, _)
BigDivDigit(N, d) ==
  IF N = << >> THEN [q |-> << >>, r |-> 0]
  ELSE Bind(BigDivDigit(Tail(N), d), LAMBDA hi :
         LET t == hi.r * Base + Head(N)
         IN  [q |-> << t \div d >> \o hi.q, r |-> t % d])

BigDiv(N, d) == Bind(BigDivDigit(N, d), LAMBDA x : [q |-> BigTrim(x.q), r |-> x.r])

RECURSIVE IntBits(_)
IntBits(n) == IF n = 0 THEN 0 ELSE 1 + IntBits(n \div 2)

BigBits(N) == IF N = << >> THEN 0 ELSE (Len(N) - 1) * DigitBits + IntBits(N[Len(N)])

BigShl(N, k) ==
  BigTrim([i \in 1..(k \div DigitBits) |-> 0] \o BigMulDigit(N, 2^(k % DigitBits), 0))

BigShr(N, k) ==
  IF k \div DigitBits >= Len(N) THEN << >>
  ELSE BigDiv(SubSeq(N, (k \div DigitBits) + 1, Len(N)), 2^(k % DigitBits)).q

\* bit i of N, and whether any of the k lowest bits of N is set
BigBit(N, i) ==
  IF i \div DigitBits >= Len(N) THEN 0
  ELSE (N[(i \div DigitBits) + 1] \div 2^(i % DigitBits)) % 2

BigLowBits(N, k) ==
  \/ \E i \in 1..Min(Len(N), k \div DigitBits) : N[i] # 0
  \/ /\ k \div DigitBits < Len(N)
     /\ N[(k \div DigitBits) + 1] % 2^(k % DigitBits) # 0

RECURSIVE BigLeq(_, _)
BigLeq(X, Y) ==
  IF Len(X) # Len(Y) THEN Len(X) < Len(Y)
  ELSE IF X = << >> THEN TRUE
  ELSE IF X[Len(X)] # Y[Len(Y)] THEN X[Len(X)] < Y[Len(Y)]
  ELSE BigLeq(SubSeq(X, 1, Len(X) - 1), SubSeq(Y, 1, Len(Y) - 1))

\* N = m * 2^t with m odd (N # 0): t is the place of the lowest bit set
OddPart(N) ==
  Bind(CHOOSE k \in 0..BigBits(N) : N = << >> \/ (BigBit(N, k) = 1 /\ ~BigLowBits(N, k)),
       LAMBDA t : [m |-> BigShr(N, t), t |-> t])

\* f64: the value m * 2^e with m below 2^MantissaBits.  The result of an
\* operation is the exact result N * 2^e (plus a little, when `sticky`)
\* rounded to nearest, ties to even.  Exponents stay far inside the range
\* of the format here.
MantissaBits == 53
DivScale == 75

RoundF(N, e, sticky) ==
  Bind(BigBits(N) - MantissaBits, LAMBDA k :
    IF k <= 0 THEN [m |-> N, e |-> e]
    ELSE LET guard == BigBit(N, k - 1) = 1
             rest  == sticky \/ BigLowBits(N, k - 1)
             up    == guard /\ (rest \/ BigBit(N, k) = 1)
         IN  [m |-> IF up THEN BigAdd(BigShr(N, k), << 1 >>) ELSE BigShr(N, k),
              e |-> e + k])

\* `n as f64`
F64(n) == RoundF(BigOf(n), 0, FALSE)

FAdd(x, y) ==
  LET e == Min(x.e, y.e)
  IN  RoundF(BigAdd(BigShl(x.m, x.e - e), BigShl(y.m, y.e - e)), e, FALSE)

FMul(x, y) == RoundF(BigMul(x.m, y.m), x.e + y.e, FALSE)

\* x / y for a divisor whose odd part is a digit, as are the divisors of
\* collect_garbage: UPPER_BOUND - LOWER_BOUND and ARENA_SIZE
FDiv(x, y) ==
  Bind(OddPart(y.m), LAMBDA d :
  Bind(BigDiv(BigShl(x.m, DivScale), BigToInt(d.m)), LAMBDA q :
    RoundF(q.q, x.e - DivScale - y.e - d.t, q.r # 0)))

\* x.ceil() as u32
FCeil(x) ==
  IF x.e >= 0 THEN BigToInt(BigShl(x.m, x.e))
  ELSE BigToInt(BigShr(x.m, 0 - x.e)) + (IF BigLowBits(x.m, 0 - x.e) THEN 1 ELSE 0)

\* The parameters of the sizing: as scaled for the model, and as in the source.
ModelSizing ==
  [ small |-> SMALL_MODEL_SLOP, big |-> BIG_MODEL_SLOP,
    lower |-> LOWER_BOUND, upper |-> UPPER_BOUND, arena |-> ARENA_SIZE ]

SourceSizing ==
  [ small |-> 8, big |-> 2, lower |-> 4 * 1024 * 1024, upper |-> 32 * 1024 * 1024,
    arena |-> 5460 ]

\* slop_factor
SlopFactor(K, active_node_count) ==
  IF active_node_count < K.lower THEN F64(K.small)
  ELSE IF active_node_count < K.upper
  THEN FAdd(F64(K.big),
            FDiv(FMul(F64(K.upper - active_node_count), F64(K.small - K.big)),
                 F64(K.upper - K.lower)))
  ELSE F64(K.big)

\* ideal_arena_count, for the parameters K
IdealArenaCount(K, active_node_count) ==
  FCeil(FDiv(FMul(F64(active_node_count), SlopFactor(K, active_node_count)), F64(K.arena)))

ideal_arena_count(active_node_count) == IdealArenaCount(ModelSizing, active_node_count)

RECURSIVE GrowArenas(_, _)
GrowArenas(H, ideal) ==
  IF H.na.arena_count < ideal THEN GrowArenas(allocate_new_arena(H), ideal) ELSE H

\* the end of collect_garbage without the reset of the cursor
KeepCursor(H) == [H EXCEPT !.na.need_to_collect_garbage = FALSE]

\* the reset without the reserve of a last arena
ResetCursorWithoutReserve(H) ==
  [H EXCEPT !.na.current_arena_past_active_arena = FALSE,
            !.na.current_arena = first_arena(H.na),
            !.na.next_node     = 0,
            !.na.end_pointer   = ARENA_SIZE,
            !.na.need_to_collect_garbage = FALSE]

\* the end of collect_garbage: "Reset state variables"
ResetCursor(H) ==
  [H EXCEPT !.na.current_arena_past_active_arena = FALSE,
            !.na.current_arena = first_arena(H.na),
            !.na.next_node     = 0,
            !.na.end_pointer   = IF next_arena(H.na, first_arena(H.na)) = NullPtr
                                 THEN ARENA_SIZE - RESERVE_SIZE ELSE ARENA_SIZE,
            !.na.need_to_collect_garbage = FALSE]

\* NodeAllocator::collect_garbage, step by step: the heap after
\* sweep_arenas, after _prepare_to_mark, after mark_roots, and at the end.
GcSwept(H) == sweep_arenas(H)
GcPrepared(H) == prepare_to_mark([GcSwept(H) EXCEPT !.anc = 0])
GcMarked(H, roots, head, cached) == mark_roots(GcPrepared(H), roots, head, cached)

collect_garbage(H, roots, head, cached) ==
  IF first_arena(H.na) = NullPtr THEN H
  ELSE
    Bind(GcMarked(H, roots, head, cached), LAMBDA H3 :
      IF H3.status # "ok" THEN H3
      ELSE Bind(sweep_garbage(H3), LAMBDA H4 :
             ResetCursor(GrowArenas(H4, ideal_arena_count(H4.anc)))))

\* want_to_collect_garbage(): NodeAllocator::want_to_collect_garbage on the
\* global node allocator
want_to_collect_garbage(H) == H.na.need_to_collect_garbage

\* the safe point that asks the node allocator only
ok_to_collect_garbage_for_nodes(H, roots, head, cached) ==
  IF H.na.need_to_collect_garbage THEN collect_garbage(H, roots, head, cached) ELSE H

\* NodeAllocator::ok_to_collect_garbage
ok_to_collect_garbage(H, roots, head, cached) ==
  IF H.na.need_to_collect_garbage \/ H.sa.need_to_collect_garbage
  THEN collect_garbage(H, roots, head, cached)
  ELSE H

\* ---------------------------------------------------------------------
\* What a client sees of a node: DagNode::iter_args and DagNode::len
\* ---------------------------------------------------------------------
Shape(slot) ==
  IF slot.args = NullWord THEN "empty" ELSE IF slot.nd THEN "vector" ELSE "single"

VecWellFormed(H, p) ==
  /\ p.k = "addr" /\ InBucket(H, p, 24)
  /\ VecLength(H, p) <= VecDataLen(H, p)
  /\ VecLength(H, p) > 0 =>
       /\ VecDataPtr(H, p).k = "addr"
       /\ InBucket(H, VecDataPtr(H, p), VecLength(H, p) * NODE_PTR_SIZE - 8)

\* the sequence of pointers iter_args yields (the first word of each)
iter_args(H, n) ==
  LET slot == H.slots[n]
  IN  IF ~slot.init THEN << JunkWord >>
      ELSE IF slot.args = NullWord THEN << >>
      ELSE IF slot.nd
      THEN IF VecWellFormed(H, slot.args)
           THEN [i \in 1..VecLength(H, slot.args) |->
                   Rd(H, VecDataPtr(H, slot.args), (i - 1) * NODE_PTR_SIZE)]
           ELSE << JunkWord >>
      ELSE << slot.args >>

ChildNodes(H, n) ==
  { w.a : w \in { x \in SeqToSet(iter_args(H, n)) : x.k = "node" /\ x.a \in DOMAIN H.slots } }

RECURSIVE ReachFrom(_, _, _)
ReachFrom(H, frontier, seen) ==
  IF frontier = {} THEN seen
  ELSE LET new == (UNION { ChildNodes(H, n) : n \in frontier }) \ (seen \cup frontier)
       IN  ReachFrom(H, new, seen \cup frontier)

Reach(H, from) == ReachFrom(H, from \cap DOMAIN H.slots, {})

View(H, n) ==
  [ symbol |-> H.slots[n].symbol, shape |-> Shape(H.slots[n]), children |-> iter_args(H, n) ]

\* ---------------------------------------------------------------------
\* The state
\* ---------------------------------------------------------------------
VARIABLES
  slots,              \* the slots of all arenas
  node_allocator,     \* GLOBAL_NODE_ALLOCATOR
  buckets,            \* the buckets ever created
  storage_allocator,  \* GLOBAL_STORAGE_ALLOCATOR
  ACTIVE_NODE_COUNT,
  GC_COUNT,
  roots, LIST_HEAD,   \* the RootContainers that exist, and the list head
  status,             \* "ok", "panic" or "ub"
  temps,              \* the node pointers the mutator holds in local variables
  allocs,             \* calls of allocate_dag_node so far
  dtor, dtor_epoch,   \* destructor runs per slot since it was handed out; the most in any epoch
  uninit_read,        \* whether the flags of an uninitialised slot were ever read
  inserts,            \* calls of insert_child so far
  handed,             \* the slots allocate_dag_node returned since the last collection
  last,               \* what the last call did
  mutex,              \* for each global Mutex, the thread that holds its guard
  pc,                 \* for each thread, the call it is in and how far it is
  took                \* for each thread, its last helper call and the allocator mutexes that call locked

vars == << slots, node_allocator, buckets, storage_allocator, ACTIVE_NODE_COUNT, GC_COUNT,
           roots, LIST_HEAD, status, temps, allocs, dtor, dtor_epoch, uninit_read, inserts, handed, last,
           mutex, pc, took >>

lockvars == << mutex, pc, took >>

\* GLOBAL_NODE_ALLOCATOR, GLOBAL_STORAGE_ALLOCATOR and LIST_HEAD are each
\* behind a std::sync::Mutex
Mutexes == {"node", "storage", "roots"}
Threads == 1..NumThreads
NoThread == 0

\* no thread holds a guard or is inside a call
LockInit ==
  /\ mutex = [m \in Mutexes |-> NoThread]
  /\ pc = [t \in Threads |-> "idle"]
  /\ took = [t \in Threads |-> [call |-> "none", locked |-> {}]]

Heap ==
  [ slots |-> slots, na |-> node_allocator, bk |-> buckets, sa |-> storage_allocator,
    anc |-> ACTIVE_NODE_COUNT, status |-> status, dtor |-> dtor, dtor_epoch |-> dtor_epoch,
    uninit_read |-> uninit_read, res |-> NullWord, returned |-> UninitSlot, copies |-> << >> ]

Install(H) ==
  /\ slots' = H.slots
  /\ node_allocator' = H.na
  /\ buckets' = H.bk
  /\ storage_allocator' = H.sa
  /\ ACTIVE_NODE_COUNT' = H.anc
  /\ status' = H.status
  /\ dtor' = H.dtor
  /\ dtor_epoch' = H.dtor_epoch
  /\ uninit_read' = H.uninit_read

RootNodes == { roots[r].node : r \in DOMAIN roots }
Rooted == Reach(Heap, RootNodes)
\* the nodes the mutator can name: its local variables and what its roots reach
Known == temps \cup Rooted

Init ==
  /\ slots = << >>
  /\ node_allocator = NewNodeAllocator
  /\ buckets = << >>
  /\ storage_allocator = NewStorageAllocator
  /\ ACTIVE_NODE_COUNT = 0
  /\ GC_COUNT = 0
  /\ roots = << >>
  /\ LIST_HEAD = NoRoot
  /\ status = "ok"
  /\ temps = {}
  /\ allocs = 0
  /\ dtor = << >>
  /\ dtor_epoch = 0
  /\ uninit_read = FALSE
  /\ inserts = 0
  /\ handed = {}
  /\ last = [op |-> "init", node |-> NullPtr]
  /\ LockInit

\* ---------------------------------------------------------------------
\* The mutator's calls
\* ---------------------------------------------------------------------
\* DagNodeCore::new / FreeDagNode::new for a symbol of the given arity
NewNodeWithin(arity, g, max_allocs) ==
  /\ status = "ok" /\ allocs < max_allocs
  /\ \E H \in { with_theory(Heap, arity, g) } :
       /\ Install(H)
       /\ temps' = IF H.status = "ok" THEN temps \cup {H.res} ELSE temps
       /\ last' = [op |-> "new", node |-> H.res]
       /\ handed' = handed \cup {H.res}
  /\ allocs' = allocs + 1
  /\ UNCHANGED << GC_COUNT, roots, LIST_HEAD, inserts >>
  /\ UNCHANGED lockvars

NewNode(arity, g) == NewNodeWithin(arity, g, MaxAllocs)

\* parent.insert_child(child); the mutator builds DAGs
InsertChild(parent, child) ==
  /\ status = "ok" /\ inserts < MaxInserts
  /\ parent \in Known /\ child \in Known
  /\ parent \notin Reach(Heap, {child})
  /\ Install(insert_child(Heap, parent, child))
  /\ last' = [op |-> "insert", node |-> parent]
  /\ inserts' = inserts + 1
  /\ UNCHANGED << GC_COUNT, roots, LIST_HEAD, temps, allocs, handed >>
  /\ UNCHANGED lockvars

\* RootContainer::new(node), with link()
NewRoot(r, node) ==
  /\ status = "ok"
  /\ r \notin DOMAIN roots /\ \A q \in 1..(r - 1) : q \in DOMAIN roots
  /\ node \in Known
  /\ LET linked == [next |-> LIST_HEAD, prev |-> NoRoot, node |-> node]
         others == IF LIST_HEAD # NoRoot
                   THEN [roots EXCEPT ![LIST_HEAD].prev = r] ELSE roots
     IN  roots' = others @@ (r :> linked)
  /\ LIST_HEAD' = r
  /\ last' = [op |-> "root", node |-> node]
  /\ UNCHANGED << slots, node_allocator, buckets, storage_allocator, ACTIVE_NODE_COUNT,
                  GC_COUNT, status, temps, allocs, dtor, dtor_epoch, uninit_read, inserts, handed >>
  /\ UNCHANGED lockvars

\* a drop whose unlink() takes every container for the head of the list
DropRootAsHead(r) ==
  /\ status = "ok"
  /\ r \in DOMAIN roots
  /\ LET self == roots[r]
         r1 == IF self.next # NoRoot THEN [roots EXCEPT ![self.next].prev = self.prev] ELSE roots
         r2 == IF self.prev # NoRoot THEN [r1 EXCEPT ![self.prev].next = self.next] ELSE r1
     IN  /\ roots' = IF DOMAIN roots = {r} THEN << >>
                      ELSE [q \in DOMAIN roots \ {r} |-> r2[q]]
         /\ LIST_HEAD' = self.next
  /\ last' = [op |-> "unroot", node |-> roots[r].node]
  /\ UNCHANGED << slots, node_allocator, buckets, storage_allocator, ACTIVE_NODE_COUNT,
                  GC_COUNT, status, temps, allocs, dtor, dtor_epoch, uninit_read, inserts, handed >>
  /\ UNCHANGED lockvars

\* drop of a RootContainer, with unlink()
DropRoot(r) ==
  /\ status = "ok"
  /\ r \in DOMAIN roots
  /\ LET self == roots[r]
         r1 == IF self.next # NoRoot THEN [roots EXCEPT ![self.next].prev = self.prev] ELSE roots
         r2 == IF self.prev # NoRoot THEN [r1 EXCEPT ![self.prev].next = self.next] ELSE r1
     IN  /\ roots' = IF DOMAIN roots = {r} THEN << >>
                      ELSE [q \in DOMAIN roots \ {r} |-> r2[q]]
         /\ LIST_HEAD' = IF self.prev # NoRoot THEN LIST_HEAD
                         ELSE IF self.next # NoRoot THEN self.next ELSE NoRoot
  /\ last' = [op |-> "unroot", node |-> roots[r].node]
  /\ UNCHANGED << slots, node_allocator, buckets, storage_allocator, ACTIVE_NODE_COUNT,
                  GC_COUNT, status, temps, allocs, dtor, dtor_epoch, uninit_read, inserts, handed >>
  /\ UNCHANGED lockvars

\* ok_to_collect_garbage(): the safe point.  The mutator keeps no pointer
\* across it to a node that its roots do not reach.
WantsCollection ==
  node_allocator.need_to_collect_garbage \/ storage_allocator.need_to_collect_garbage

OkToCollectGarbage(cached) ==
  /\ status = "ok"
  /\ WantsCollection => GC_COUNT < MaxCollections
  /\ Install(ok_to_collect_garbage(Heap, roots, LIST_HEAD, cached))
  /\ LET ran == WantsCollection /\ first_arena(node_allocator) # NullPtr
     IN  /\ GC_COUNT' = IF ran THEN GC_COUNT + 1 ELSE GC_COUNT
         /\ handed' = IF ran THEN {} ELSE handed
         /\ last' = [op |-> IF ran THEN "gc" ELSE "safepoint", node |-> NullPtr]
  /\ temps' = temps \cap Rooted
  /\ UNCHANGED << roots, LIST_HEAD, allocs, inserts >>
  /\ UNCHANGED lockvars

Next ==
  \/ \E arity \in 0..MaxArity, g \in Garbage : NewNode(arity, g)
  \/ \E parent \in DOMAIN slots, child \in DOMAIN slots : InsertChild(parent, child)
  \/ \E r \in 1..MaxRoots, node \in DOMAIN slots : NewRoot(r, node)
  \/ \E r \in 1..MaxRoots : DropRoot(r)
  \/ \E cached \in BOOLEAN : OkToCollectGarbage(cached)

Spec == Init /\ [][Next]_vars

\* ---------------------------------------------------------------------
\* The sizing at the end of collect_garbage ("Calculate if we should
\* allocate more arenas") with the parameters of the source, as a function
\* of arena_count and of the active node count the mark phase left.  The
\* marked nodes are slots of the arenas, so the arenas hold at least that
\* many.  The slots themselves play no part in the sizing and are left
\* out.  After the step last.node is arena_count as it was before.
\* ---------------------------------------------------------------------
SizingInit ==
  /\ ACTIVE_NODE_COUNT \in SizingFirstActive..SizingLastActive
  /\ \E extra \in 0..MaxSizingExtra :
       node_allocator = [NewNodeAllocator EXCEPT
                           !.arena_count = CeilDiv(ACTIVE_NODE_COUNT, SourceSizing.arena) + extra]
  /\ slots = << >>
  /\ dtor = << >>
  /\ buckets = << >>
  /\ storage_allocator = NewStorageAllocator
  /\ GC_COUNT = 1
  /\ roots = << >>
  /\ LIST_HEAD = NoRoot
  /\ status = "ok"
  /\ temps = {}
  /\ allocs = 0
  /\ dtor_epoch = 0
  /\ uninit_read = FALSE
  /\ inserts = 0
  /\ handed = {}
  /\ last = [op |-> "marked", node |-> NullPtr]
  /\ LockInit

\* while self.arena_count < ideal_arena_count { self.allocate_new_arena(); }
Sizing ==
  /\ last.op = "marked"
  /\ node_allocator' =
       [node_allocator EXCEPT
          !.arena_count = Max(@, IdealArenaCount(SourceSizing, ACTIVE_NODE_COUNT))]
  /\ last' = [op |-> "sizing", node |-> node_allocator.arena_count]
  /\ UNCHANGED << slots, buckets, storage_allocator, ACTIVE_NODE_COUNT, GC_COUNT, roots,
                  LIST_HEAD, status, temps, allocs, dtor, dtor_epoch, uninit_read, inserts,
                  handed >>
  /\ UNCHANGED lockvars

SizingSpec == SizingInit /\ [][Sizing]_vars

\* ---------------------------------------------------------------------
\* Longer runs of allocations: the mutator of tests.rs that allocates
\* nodes without children, roots some of them and passes safe points.
\* ---------------------------------------------------------------------
NewLeaf(g) == NewNodeWithin(0, g, MaxRunAllocs)

RunNext ==
  \/ \E g \in Garbage : NewLeaf(g)
  \/ \E r \in 1..MaxRoots, node \in DOMAIN slots : NewRoot(r, node)
  \/ \E r \in 1..MaxRoots : DropRoot(r)
  \/ \E cached \in BOOLEAN : OkToCollectGarbage(cached)

RunSpec == Init /\ [][RunNext]_vars

\* ---------------------------------------------------------------------
\* The lazy sweep scenario: a chain of nodes of a symbol of arity 1 is
\* built as test_arena_exhaustion builds it (each new node is inserted as
\* the child of the one before), its head is rooted, a safe point is
\* passed, the root is dropped and as many nodes again are allocated.
\* The chain has inserts + 1 nodes.
\* ---------------------------------------------------------------------
ChainLength == inserts + 1
ChainTail == CHOOSE t \in temps \ {last.node} : slots[t].args = NullWord
ChainHead == CHOOSE h \in temps : temps \subseteq Reach(Heap, {h})
ChainBuilt == GC_COUNT = 0 /\ roots = << >> /\ allocs = ChainLength /\ allocs >= 1

ChainNode(g) ==
  /\ ChainBuilt \/ allocs = 0
  /\ NewNodeWithin(1, g, MaxChain)

ChainLink ==
  /\ GC_COUNT = 0 /\ roots = << >> /\ allocs = ChainLength + 1
  /\ InsertChild(ChainTail, last.node)

RootHead ==
  /\ ChainBuilt
  /\ NewRoot(1, ChainHead)

ChainSafePoint(cached) ==
  /\ last.op = "root"
  /\ OkToCollectGarbage(cached)

DropHead ==
  /\ last.op = "gc"
  /\ DropRoot(1)

FreshNode(g) ==
  /\ GC_COUNT = 1 /\ roots = << >>
  /\ NewNodeWithin(1, g, 2 * ChainLength)

ChainNext ==
  \/ \E g \in Garbage : ChainNode(g)
  \/ ChainLink
  \/ RootHead
  \/ \E cached \in BOOLEAN : ChainSafePoint(cached)
  \/ DropHead
  \/ \E g \in Garbage : FreshNode(g)

ChainSpec == Init /\ [][ChainNext]_vars

\* ---------------------------------------------------------------------
\* Runs with argument vectors of more than one size: the mutator of
\* test_garbage_collection, which allocates nodes of symbols of several
\* arities, roots some of them and passes safe points.  The data of a
\* vector of MaxVectorArity elements needs a bucket of its own size.
\* ---------------------------------------------------------------------
NewVectorNode(arity, g) == NewNodeWithin(arity, g, MaxVectorAllocs)

VectorNext ==
  \/ \E arity \in 2..MaxVectorArity, g \in Garbage : NewVectorNode(arity, g)
  \/ \E r \in 1..MaxRoots, node \in DOMAIN slots : NewRoot(r, node)
  \/ \E r \in 1..MaxRoots : DropRoot(r)
  \/ \E cached \in BOOLEAN : OkToCollectGarbage(cached)

VectorSpec == Init /\ [][VectorNext]_vars

\* ---------------------------------------------------------------------
\* The same mutator, which also fills the argument vectors of its nodes with
\* insert_child: a node of a symbol of arity > 1 is made with an empty
\* vector of that capacity, then its children are pushed (as
\* FreeTerm::dagify_aux does).
\* ---------------------------------------------------------------------
PushNext ==
  \/ \E arity \in 2..MaxVectorArity, g \in Garbage : NewVectorNode(arity, g)
  \/ \E parent \in DOMAIN slots, child \in DOMAIN slots : InsertChild(parent, child)
  \/ \E r \in 1..MaxRoots, node \in DOMAIN slots : NewRoot(r, node)
  \/ \E r \in 1..MaxRoots : DropRoot(r)
  \/ \E cached \in BOOLEAN : OkToCollectGarbage(cached)

PushSpec == Init /\ [][PushNext]_vars

\* ---------------------------------------------------------------------
\* A client of the storage allocator: besides making nodes with argument
\* vectors, rooting them and passing safe points, it asks for raw storage of any byte
\* count with acquire_storage_allocator().allocate_storage(bytes).
\* ---------------------------------------------------------------------
AllocateStorage(bytes) ==
  /\ status = "ok"
  /\ storage_allocator.storage_in_use <= MaxStorageInUse
  /\ Install(allocate_storage(Heap, bytes))
  /\ last' = [op |-> "storage", node |-> bytes]
  /\ UNCHANGED << GC_COUNT, roots, LIST_HEAD, temps, allocs, inserts, handed >>
  /\ UNCHANGED lockvars

StorageNext ==
  \/ \E bytes \in 0..MaxStorageBytes : AllocateStorage(bytes)
  \/ \E arity \in 2..MaxVectorArity, g \in Garbage : NewVectorNode(arity, g)
  \/ \E r \in 1..MaxRoots, node \in DOMAIN slots : NewRoot(r, node)
  \/ \E cached \in BOOLEAN : OkToCollectGarbage(cached)

StorageSpec == Init /\ [][StorageNext]_vars

\* ---------------------------------------------------------------------
\* Threads that call the public helpers allocate_dag_node(),
\* ok_to_collect_garbage() and want_to_collect_garbage().  Each helper
\* locks GLOBAL_NODE_ALLOCATOR and keeps the guard until it returns;
\* acquire_storage_allocator() locks GLOBAL_STORAGE_ALLOCATOR for one
\* statement.  Mutex::lock blocks while another thread holds the guard.
\* ---------------------------------------------------------------------
Helpers == {"allocate_dag_node", "ok_to_collect_garbage", "want_to_collect_garbage"}

Lock(t, m)   == [mutex EXCEPT ![m] = t]
Unlock(t, m) == [mutex EXCEPT ![m] = NoThread]
Goto(t, label) == pc' = [pc EXCEPT ![t] = label]
ThreadStep(t) ==
  /\ last' = [op |-> "thread", node |-> t]
  /\ UNCHANGED << roots, LIST_HEAD, inserts >>

\* acquire_node_allocator(..) at the head of a helper
Call(t, helper) ==
  /\ status = "ok" /\ pc[t] = "idle"
  /\ helper = "allocate_dag_node" => allocs < MaxThreadAllocs
  /\ helper = "ok_to_collect_garbage" /\ WantsCollection => GC_COUNT < MaxCollections
  /\ mutex["node"] = NoThread
  /\ mutex' = Lock(t, "node")
  /\ took' = [took EXCEPT ![t] = [call |-> helper, locked |-> {"node"}]]
  /\ Goto(t, helper)
  /\ ThreadStep(t)
  /\ UNCHANGED << slots, node_allocator, buckets, storage_allocator, ACTIVE_NODE_COUNT,
                  GC_COUNT, status, temps, allocs, dtor, dtor_epoch, uninit_read, handed >>

\* allocate_dag_node that locks the storage allocator as well
AllocateDagNodeLockingStorage(t, g) ==
  /\ status = "ok" /\ pc[t] = "allocate_dag_node"
  /\ mutex["storage"] = NoThread
  /\ \E H \in { allocate_dag_node(Heap, g) } :
       /\ Install(H)
       /\ temps' = IF H.status = "ok" THEN temps \cup {H.res} ELSE temps
       /\ handed' = handed \cup {H.res}
  /\ allocs' = allocs + 1
  /\ took' = [took EXCEPT ![t].locked = @ \cup {"storage"}]
  /\ Goto(t, "return")
  /\ ThreadStep(t)
  /\ UNCHANGED << GC_COUNT, mutex >>

\* NodeAllocator::allocate_dag_node under the guard
AllocateDagNode(t, g) ==
  /\ status = "ok" /\ pc[t] = "allocate_dag_node"
  /\ \E H \in { allocate_dag_node(Heap, g) } :
       /\ Install(H)
       /\ temps' = IF H.status = "ok" THEN temps \cup {H.res} ELSE temps
       /\ handed' = handed \cup {H.res}
  /\ allocs' = allocs + 1
  /\ Goto(t, "return")
  /\ ThreadStep(t)
  /\ UNCHANGED << GC_COUNT, mutex, took >>

\* NodeAllocator::want_to_collect_garbage under the guard
WantToCollectGarbage(t) ==
  /\ status = "ok" /\ pc[t] = "want_to_collect_garbage"
  /\ Goto(t, "return")
  /\ ThreadStep(t)
  /\ UNCHANGED << slots, node_allocator, buckets, storage_allocator, ACTIVE_NODE_COUNT,
                  GC_COUNT, status, temps, allocs, dtor, dtor_epoch, uninit_read, handed,
                  mutex, took >>

\* NodeAllocator::ok_to_collect_garbage: self.need_to_collect_garbage ||
\* acquire_storage_allocator()...
AskStorage(t) ==
  /\ status = "ok" /\ pc[t] = "ok_to_collect_garbage"
  /\ IF node_allocator.need_to_collect_garbage
     THEN /\ Goto(t, "collect_garbage")
          /\ UNCHANGED << mutex, took >>
     ELSE /\ mutex["storage"] = NoThread
          /\ mutex' = Lock(t, "storage")
          /\ took' = [took EXCEPT ![t].locked = @ \cup {"storage"}]
          /\ Goto(t, "want_storage")
  /\ ThreadStep(t)
  /\ UNCHANGED << slots, node_allocator, buckets, storage_allocator, ACTIVE_NODE_COUNT,
                  GC_COUNT, status, temps, allocs, dtor, dtor_epoch, uninit_read, handed >>

\* ... .want_to_collect_garbage(), after which the storage guard is dropped
StorageAnswers(t) ==
  /\ status = "ok" /\ pc[t] = "want_storage"
  /\ mutex' = Unlock(t, "storage")
  /\ Goto(t, IF storage_allocator.need_to_collect_garbage THEN "collect_garbage" ELSE "return")
  /\ ThreadStep(t)
  /\ UNCHANGED << slots, node_allocator, buckets, storage_allocator, ACTIVE_NODE_COUNT,
                  GC_COUNT, status, temps, allocs, dtor, dtor_epoch, uninit_read, handed, took >>

\* collect_garbage up to acquire_storage_allocator()._prepare_to_mark()
CollectPrepare(t) ==
  /\ status = "ok" /\ pc[t] = "collect_garbage"
  /\ IF first_arena(node_allocator) = NullPtr
     THEN /\ Goto(t, "return")
          /\ UNCHANGED << slots, node_allocator, buckets, storage_allocator, ACTIVE_NODE_COUNT,
                          GC_COUNT, status, dtor, dtor_epoch, uninit_read, mutex, took >>
     ELSE /\ mutex["storage"] = NoThread
          /\ Install(GcPrepared(Heap))
          /\ GC_COUNT' = GC_COUNT + 1
          /\ mutex' = Lock(t, "storage")
          /\ took' = [took EXCEPT ![t].locked = @ \cup {"storage"}]
          /\ Goto(t, "prepare_to_mark")
  /\ ThreadStep(t)
  /\ UNCHANGED << temps, allocs, handed >>

\* the storage guard is dropped; mark_roots() under the guard of the root
\* list, whose copies lock the storage allocator for each allocation; then
\* acquire_storage_allocator()._sweep_garbage()
CollectMark(t, cached) ==
  /\ status = "ok" /\ pc[t] = "prepare_to_mark"
  /\ IF mutex["roots"] # NoThread
     THEN /\ status' = "panic"
          /\ UNCHANGED << slots, node_allocator, buckets, storage_allocator, ACTIVE_NODE_COUNT,
                          dtor, dtor_epoch, uninit_read, mutex, pc >>
     ELSE /\ Install(mark_roots(Heap, roots, LIST_HEAD, cached))
          /\ Goto(t, "sweep_garbage")
          /\ UNCHANGED mutex
  /\ ThreadStep(t)
  /\ UNCHANGED << GC_COUNT, temps, allocs, handed, took >>

\* _sweep_garbage, the sizing of the arenas and the reset of the cursor
CollectFinish(t) ==
  /\ status = "ok" /\ pc[t] = "sweep_garbage"
  /\ Install(ResetCursor(GrowArenas(sweep_garbage(Heap), ideal_arena_count(ACTIVE_NODE_COUNT))))
  /\ mutex' = Unlock(t, "storage")
  /\ handed' = {}
  /\ temps' = temps \cap Rooted
  /\ Goto(t, "return")
  /\ ThreadStep(t)
  /\ UNCHANGED << GC_COUNT, allocs, took >>

\* the helper returns and the guard of the node allocator is dropped
Return(t) ==
  /\ status = "ok" /\ pc[t] = "return"
  /\ mutex' = Unlock(t, "node")
  /\ Goto(t, "idle")
  /\ ThreadStep(t)
  /\ UNCHANGED << slots, node_allocator, buckets, storage_allocator, ACTIVE_NODE_COUNT,
                  GC_COUNT, status, temps, allocs, dtor, dtor_epoch, uninit_read, handed, took >>

ThreadNext ==
  \E t \in Threads :
    \/ \E helper \in Helpers : Call(t, helper)
    \/ \E g \in Garbage : AllocateDagNode(t, g)
    \/ WantToCollectGarbage(t)
    \/ AskStorage(t)
    \/ StorageAnswers(t)
    \/ CollectPrepare(t)
    \/ \E cached \in BOOLEAN : CollectMark(t, cached)
    \/ CollectFinish(t)
    \/ Return(t)

ThreadSpec == Init /\ [][ThreadNext]_vars

\* ---------------------------------------------------------------------
\* A mutator that keeps allocating after a collection, so that collections
\* begin with the cursor anywhere among the slots the previous one marked:
\* leaves and nodes with an argument vector (whose storage asks for
\* collections), roots and safe points.
\* ---------------------------------------------------------------------
NewSweepNode(arity, g) == NewNodeWithin(arity, g, MaxSweepAllocs)

SweepNext ==
  \/ \E arity \in {0, MaxArity}, g \in Garbage : NewSweepNode(arity, g)
  \/ \E r \in 1..MaxRoots, node \in DOMAIN slots : NewRoot(r, node)
  \/ \E r \in 1..MaxRoots : DropRoot(r)
  \/ \E cached \in BOOLEAN : OkToCollectGarbage(cached)

SweepSpec == Init /\ [][SweepNext]_vars

\* ---------------------------------------------------------------------
\* A mutator that keeps several RootContainers at a time and drops them in
\* any order: the head of the list, its last entry or one in between.
\* ---------------------------------------------------------------------
RootNext ==
  \/ \E g \in Garbage : NewNode(0, g)
  \/ \E r \in 1..MaxRootContainers, node \in DOMAIN slots : NewRoot(r, node)
  \/ \E r \in 1..MaxRootContainers : DropRoot(r)
  \/ \E cached \in BOOLEAN : OkToCollectGarbage(cached)

RootSpec == Init /\ [][RootNext]_vars

\* ---------------------------------------------------------------------
\* Threads that create and drop RootContainers while other threads
\* allocate and collect.  acquire_root_list() is LIST_HEAD.try_lock(): it
\* returns the guard when no thread holds it and panics otherwise.  link()
\* and unlink() keep the guard for their few statements; mark_roots()
\* keeps it for its whole loop.
\* ---------------------------------------------------------------------
\* the panic of acquire_root_list in a call made for `node`
RootListHeld(op, node) ==
  /\ status' = "panic"
  /\ last' = [op |-> op, node |-> node]
  /\ UNCHANGED << slots, node_allocator, buckets, storage_allocator, ACTIVE_NODE_COUNT,
                  GC_COUNT, roots, LIST_HEAD, temps, allocs, dtor, dtor_epoch, uninit_read,
                  inserts, handed >>
  /\ UNCHANGED lockvars

\* RootContainer::new(node) on thread t
ThreadNewRoot(t, r, node) ==
  /\ pc[t] = "idle"
  /\ IF mutex["roots"] = NoThread
     THEN NewRoot(r, node)
     ELSE /\ status = "ok"
          /\ r \notin DOMAIN roots /\ \A q \in 1..(r - 1) : q \in DOMAIN roots
          /\ node \in Known
          /\ RootListHeld("root", node)

\* drop of a RootContainer on thread t
ThreadDropRoot(t, r) ==
  /\ pc[t] = "idle"
  /\ IF mutex["roots"] = NoThread
     THEN DropRoot(r)
     ELSE /\ status = "ok"
          /\ r \in DOMAIN roots
          /\ RootListHeld("unroot", roots[r].node)

\* mark_roots: `let list_head = acquire_root_list();`
AcquireRootList(t) ==
  /\ status = "ok" /\ pc[t] = "prepare_to_mark"
  /\ IF mutex["roots"] # NoThread
     THEN status' = "panic" /\ UNCHANGED << mutex, pc >>
     ELSE status' = status /\ mutex' = Lock(t, "roots") /\ Goto(t, "mark_roots")
  /\ ThreadStep(t)
  /\ UNCHANGED << slots, node_allocator, buckets, storage_allocator, ACTIVE_NODE_COUNT,
                  GC_COUNT, temps, allocs, dtor, dtor_epoch, uninit_read, handed, took >>

\* the loop of mark_roots, at whose end the guard of the root list is dropped
MarkRoots(t, cached) ==
  /\ status = "ok" /\ pc[t] = "mark_roots"
  /\ Install(mark_roots(Heap, roots, LIST_HEAD, cached))
  /\ mutex' = Unlock(t, "roots")
  /\ Goto(t, "sweep_garbage")
  /\ ThreadStep(t)
  /\ UNCHANGED << GC_COUNT, temps, allocs, handed, took >>

RootThreadNext ==
  \E t \in Threads :
    \/ \E helper \in {"allocate_dag_node", "ok_to_collect_garbage"} :
         /\ helper = "allocate_dag_node" => allocs < MaxAllocs
         /\ Call(t, helper)
    \/ \E g \in Garbage : AllocateDagNode(t, g)
    \/ AskStorage(t)
    \/ StorageAnswers(t)
    \/ CollectPrepare(t)
    \/ AcquireRootList(t)
    \/ \E cached \in BOOLEAN : MarkRoots(t, cached)
    \/ CollectFinish(t)
    \/ Return(t)
    \/ \E r \in 1..MaxRoots, node \in DOMAIN slots : ThreadNewRoot(t, r, node)
    \/ \E r \in 1..MaxRoots : ThreadDropRoot(t, r)

RootThreadSpec == Init /\ [][RootThreadNext]_vars

\* ---------------------------------------------------------------------
\* Properties
\* ---------------------------------------------------------------------
\* the step is a call of ok_to_collect_garbage during which a collection ran
GcStep == last'.op = "gc"
\* the step is a call of allocate_dag_node (through DagNodeCore::new)
AllocStep == last'.op = "new"

IsVector(H, n) == H.slots[n].init /\ Shape(H.slots[n]) = "vector"

\* the bytes of the argument vector of n: its header and its data
VectorRegions(H, n) ==
  LET p == H.slots[n].args
  IN  { [start |-> p, size |-> VECTOR_HEADER_SIZE],
        [start |-> VecDataPtr(H, p), size |-> VecCapacity(H, p) * NODE_PTR_SIZE] }

InUseList(H)  == SeqToSet(ChainOf(H, H.sa.bucket_list))
UnusedList(H) == SeqToSet(ChainOf(H, H.sa.unused_list))

\* the vectors the mark phase of a collection started now copies, in order
\* (which vectors are copied, and where to, does not depend on `cached`)
MarkCopies == GcMarked(Heap, roots, LIST_HEAD, TRUE).copies

\* C1: a collection leaves every node that a root reaches with the same
\* symbol, the same shape of arguments and the same children in the same
\* order, and its children are slots that hold nodes.
C1_ReachabilityPreserved ==
  [][ GcStep /\ status' = "ok" =>
        \A n \in Rooted :
          /\ View(Heap', n) = View(Heap, n)
          /\ \A w \in SeqToSet(iter_args(Heap', n)) :
               w.k = "node" /\ w.a \in DOMAIN slots' /\ slots'[w.a].init ]_vars

\* C2: allocate_dag_node returns neither a slot that a root reaches at the
\* time of the call nor a slot it has returned since the last collection.
C2_NeverReturnsSlotInUse ==
  [][ AllocStep => last'.node \notin Rooted /\ last'.node \notin handed ]_vars

\* an allocation after a collection that passed over a rooted node
C2_Witness ==
  /\ last.op = "new" /\ GC_COUNT >= 1 /\ status = "ok"
  /\ \E n \in Rooted : n < last.node

\* C3: the header and the data of the argument vector of every node a root
\* reaches lie in the consumed part of a bucket of the in-use list.
C3_LiveStorageConsumed ==
  status = "ok" =>
    \A n \in Rooted : IsVector(Heap, n) =>
      \A r \in VectorRegions(Heap, n) :
        /\ r.start.k = "addr"
        /\ r.start.a \in InUseList(Heap)
        /\ r.start.b + r.size <= buckets[r.start.a].next_free

IsReset(slot) == slot.init /\ ~slot.marked /\ ~slot.nd /\ slot.args = NullWord

\* C4: every slot allocate_dag_node returns has its flags clear and null
\* args.
C4_ReturnedSlotIsReset ==
  [][ \A arity \in 0..MaxArity, g \in Garbage :
        NewNode(arity, g) => IsReset(allocate_dag_node(Heap, g).returned) ]_vars

\* C5: after a collection every bucket that was in use before it is on
\* the unused list and empty, and the in-use list holds exactly the
\* buckets that received the copies made by the mark phase, not reset.
C5_StorageSweepPostcondition ==
  [][ GcStep /\ status' = "ok" =>
        LET before == InUseList(Heap)
            copied == { c.to.a : c \in SeqToSet(MarkCopies) }
        IN  /\ \A b \in before :
                 b \in UnusedList(Heap') /\ buckets'[b].bytes_free = buckets'[b].cap
            /\ InUseList(Heap') = copied
            /\ \A b \in copied : buckets'[b].next_free > 0 ]_vars

RECURSIVE Consumed(_, _)
Consumed(H, chain) ==
  IF chain = << >> THEN 0
  ELSE (H.bk[Head(chain)].cap - H.bk[Head(chain)].bytes_free) + Consumed(H, Tail(chain))

\* C6: storage_in_use is the sum, over the buckets of the in-use list, of
\* the bytes the bump cursor has consumed.
C6_BucketInvariant ==
  status = "ok" =>
    storage_allocator.storage_in_use = Consumed(Heap, ChainOf(Heap, storage_allocator.bucket_list))

\* the allocation cursor as a global slot index
Cursor == SlotAt(node_allocator.current_arena, node_allocator.next_node)

\* C7 as stated: outside a collection no slot of a node the mutator can
\* name has Marked set.
C7_NoMarkedOutsideCollection ==
  status = "ok" => \A n \in Known : ~slots[n].marked

\* C7 amended: outside a collection Marked is set only on slots that the
\* allocation cursor has not reached since the last collection; the slots
\* it has passed, and so every slot handed out since, have Marked clear.
C7_MarkedOnlyAheadOfCursor ==
  status = "ok" =>
    /\ \A i \in DOMAIN slots : slots[i].marked => i >= Cursor
    /\ \A n \in handed : ~slots[n].marked

\* after a collection the cursor has passed a rooted node, whose mark it
\* cleared, and handed out a slot behind it
C7_Witness ==
  /\ status = "ok" /\ GC_COUNT >= 1 /\ last.op = "new"
  /\ \E n \in Rooted : n < Cursor /\ n \notin handed

\* C8: between two times a slot is handed out its destructor runs at most
\* once.
C8_NoDoubleDestruct ==
  /\ dtor_epoch <= 1
  /\ \A i \in DOMAIN dtor : dtor[i] <= 1

\* sweep_arenas has run the destructor of a dead node and cleared its flags
C8_Witness ==
  \E i \in DOMAIN dtor : dtor[i] = 1 /\ ~slots[i].nd /\ last.op = "gc"

\* C9 as stated: after every collection the argument vector of every node
\* a root reaches lies in a bucket that was on the unused list before
\* _prepare_to_mark.
C9_CopiesInFormerlyUnusedBuckets ==
  [][ GcStep /\ status' = "ok" =>
        \A n \in Reach(Heap', RootNodes) : IsVector(Heap', n) =>
          \A r \in VectorRegions(Heap', n) :
            r.start.k = "addr" /\ r.start.a \in UnusedList(Heap) ]_vars

\* C9 amended: ... lies in a bucket that was on the unused list before
\* _prepare_to_mark or that the mark phase created.
C9_CopiesInUnusedOrNewBuckets ==
  [][ GcStep /\ status' = "ok" =>
        \A n \in Reach(Heap', RootNodes) : IsVector(Heap', n) =>
          \A r \in VectorRegions(Heap', n) :
            /\ r.start.k = "addr"
            /\ r.start.a \in UnusedList(Heap) \cup (DOMAIN buckets' \ DOMAIN buckets) ]_vars

\* a second collection has copied a rooted vector into a bucket taken from
\* the unused list
C9_Witness ==
  /\ status = "ok" /\ last.op = "gc" /\ GC_COUNT >= 2
  /\ \E n \in Rooted : IsVector(Heap, n) /\ slots[n].args.a \in UnusedList(Heap)

\* the elements of the vector at p, in order
Elements(H, p) ==
  [i \in 1..VecLength(H, p) |-> Rd(H, VecDataPtr(H, p), (i - 1) * NODE_PTR_SIZE)]

\* C10: a collection copies the argument vector of every node a root
\* reaches exactly once, to another address, with the same length,
\* capacity and elements.
C10_VectorCopiedOnce ==
  [][ GcStep /\ status' = "ok" =>
        \A n \in Rooted : IsVector(Heap, n) =>
          /\ Cardinality({ i \in DOMAIN MarkCopies : MarkCopies[i].node = n }) = 1
          /\ slots'[n].args # slots[n].args
          /\ VecLength(Heap', slots'[n].args) = VecLength(Heap, slots[n].args)
          /\ VecCapacity(Heap', slots'[n].args) = VecCapacity(Heap, slots[n].args)
          /\ Elements(Heap', slots'[n].args) = Elements(Heap, slots[n].args) ]_vars

\* the step is the sizing at the end of a collection
SizingStep == last'.op = "sizing"

\* active times the slop factor is num / den: the factor is K.small below
\* K.lower, K.big from K.upper on, and on the line between the two in between
SlopNum(K, active) ==
  IF active < K.lower THEN K.small
  ELSE IF active >= K.upper THEN K.big
  ELSE K.big * (K.upper - K.lower) + (K.upper - active) * (K.small - K.big)

SlopDen(K, active) ==
  IF active < K.lower \/ active >= K.upper THEN 1 ELSE K.upper - K.lower

\* ceil(active * slop / unit) <= n, and n is that ceiling
CeilAtMost(K, active, unit, n) ==
  BigLeq(BigMul(BigOf(active), BigOf(SlopNum(K, active))),
         BigMul(BigOf(n), BigMul(BigOf(SlopDen(K, active)), BigOf(unit))))

IsCeil(K, active, unit, n) ==
  /\ CeilAtMost(K, active, unit, n)
  /\ n > 0 => ~CeilAtMost(K, active, unit, n - 1)

CapacityAdequate(K, active, before, after) ==
  /\ CeilAtMost(K, active, 1, after * K.arena)
  /\ IF after = before THEN CeilAtMost(K, active, K.arena, before)
     ELSE after > before /\ IsCeil(K, active, K.arena, after)

\* C11: when a collection completes the arenas hold at least
\* ceil(active_node_count * slop) nodes, and arena_count is the larger of
\* what it was and ceil(active_node_count * slop / ARENA_SIZE).
C11_CapacityAdequate ==
  [][ /\ GcStep /\ status' = "ok" =>
           CapacityAdequate(ModelSizing, ACTIVE_NODE_COUNT',
                            node_allocator.arena_count, node_allocator'.arena_count)
      /\ SizingStep =>
           CapacityAdequate(SourceSizing, ACTIVE_NODE_COUNT',
                            node_allocator.arena_count, node_allocator'.arena_count) ]_vars

\* the final RESERVE_SIZE slots of the last arena
ReserveOfLast(na) ==
  IF na.arena_count = 0 THEN {}
  ELSE SlotAt(last_arena(na), ARENA_SIZE - RESERVE_SIZE) .. SlotAt(last_arena(na), ARENA_SIZE - 1)

\* the slots the cursor passes in an allocation step, the one returned included
CursorPath ==
  (IF node_allocator.current_arena = NullPtr THEN 0 ELSE Cursor) .. last'.node

CrossesIntoReserve == CursorPath \cap ReserveOfLast(node_allocator) # {}

\* C12: outside a collection the node allocator's need_to_collect_garbage
\* changes in one way only: the allocation whose cursor enters the final
\* RESERVE_SIZE slots of the last arena sets it.  Until then it is false,
\* and once set it stays set, whatever arenas later allocations append.
C12_ReserveArming ==
  [][ status' = "ok" /\ ~GcStep =>
        node_allocator'.need_to_collect_garbage =
          (node_allocator.need_to_collect_garbage \/ (AllocStep /\ CrossesIntoReserve)) ]_vars

\* after a collection that left several arenas, an allocation took the
\* first reserved slot of the last one and armed the flag
C12_Witness ==
  /\ last.op = "new" /\ status = "ok" /\ GC_COUNT >= 1
  /\ node_allocator.arena_count >= 2
  /\ last.node \in ReserveOfLast(node_allocator)
  /\ node_allocator.need_to_collect_garbage

\* the step is a call of ok_to_collect_garbage
SafePointStep == last'.op \in {"gc", "safepoint"}

\* what a full cycle leaves: the nodes of the roots are marked and
\* counted, the cursor is back at the first slot and the node allocator
\* no longer asks for a collection
CycleRan ==
  /\ \A n \in RootNodes : slots'[n].marked
  /\ ACTIVE_NODE_COUNT' >= Cardinality(RootNodes)
  /\ ACTIVE_NODE_COUNT' = Cardinality({ n \in DOMAIN slots' : slots'[n].marked })
  /\ Cursor' = 0
  /\ ~node_allocator'.need_to_collect_garbage

C14_FlagsClearAfterCycle ==
  last.op = "gc" /\ status = "ok" =>
    /\ ~node_allocator.need_to_collect_garbage
    /\ ~storage_allocator.need_to_collect_garbage

\* C15: want_to_collect_garbage() is true exactly when the node
\* allocator or the storage allocator asks for a collection.
C15_WantIsUnion ==
  status = "ok" =>
    want_to_collect_garbage(Heap) =
      (node_allocator.need_to_collect_garbage \/ storage_allocator.need_to_collect_garbage)

\* the step called allocate_dag_node or allocate_storage: it made a node,
\* or gave a node its argument vector; last'.node is that node
AllocatingStep == last'.op \in {"new", "insert"}

\* C16: a call of allocate_dag_node or allocate_storage does nothing of a
\* collection: it sets no Marked flag, moves no argument vector of another
\* node, clears neither need_to_collect_garbage flag, leaves the roots as
\* they are and neither resets the count of active nodes nor touches what
\* only a collection writes.  It may set a need_to_collect_garbage flag.
C16_AllocationNeverCollects ==
  [][ AllocatingStep /\ status' = "ok" =>
        /\ \A n \in DOMAIN slots' :
             slots'[n].marked => n \in DOMAIN slots /\ slots[n].marked
        /\ \A n \in DOMAIN slots \ {last'.node} :
             slots[n].init => slots'[n].args = slots[n].args
        /\ node_allocator.need_to_collect_garbage => node_allocator'.need_to_collect_garbage
        /\ storage_allocator.need_to_collect_garbage => storage_allocator'.need_to_collect_garbage
        /\ UNCHANGED << roots, LIST_HEAD >>
        /\ ACTIVE_NODE_COUNT' = ACTIVE_NODE_COUNT + (IF AllocStep THEN 1 ELSE 0)
        /\ node_allocator'.arena_count >= node_allocator.arena_count
        /\ node_allocator'.last_active_arena = node_allocator.last_active_arena
        /\ node_allocator'.last_active_node = node_allocator.last_active_node
        /\ storage_allocator'.old_storage_in_use = storage_allocator.old_storage_in_use
        /\ storage_allocator'.target = storage_allocator.target
        /\ storage_allocator'.storage_in_use >= storage_allocator.storage_in_use ]_vars

\* after a collection, with a root linked and the storage allocator asking
\* for a collection, a node was allocated with an argument vector
C16_Witness ==
  /\ last.op = "new" /\ status = "ok" /\ GC_COUNT >= 1
  /\ slots[last.node].nd
  /\ roots # << >>
  /\ storage_allocator.need_to_collect_garbage

\* C17: in every state the program reaches, allocate_dag_node returns a
\* slot of an arena, whatever the cursor, the flags of the slots and the
\* need_to_collect_garbage flags are, and without a collection: the count
\* of active nodes goes up by one and no Marked flag is set.
C17_AllocationSucceeds ==
  status = "ok" =>
    \A g \in Garbage : \E H \in { allocate_dag_node(Heap, g) } :
      /\ H.status = "ok"
      /\ H.res # NullPtr /\ H.res \in DOMAIN H.slots
      /\ H.res = SlotAt(H.na.current_arena, H.na.next_node - 1)
      /\ H.anc = ACTIVE_NODE_COUNT + 1
      /\ ~H.slots[H.res].marked

\* with no collection so far an allocation found every slot of every arena
\* taken and returned the first slot of an arena it appended
C17_Witness ==
  /\ last.op = "new" /\ status = "ok" /\ GC_COUNT = 0
  /\ node_allocator.arena_count >= 2
  /\ last.node = SlotAt(last_arena(node_allocator), 0)
  /\ \A i \in 0..last.node : i \in handed
  /\ node_allocator.need_to_collect_garbage

\* the scenario has run to its end: the chain was marked by a collection,
\* its root is gone and as many fresh nodes as the chain has were allocated
ScenarioDone ==
  /\ status = "ok" /\ GC_COUNT = 1 /\ roots = << >> /\ last.op = "new"
  /\ allocs = 2 * ChainLength

\* the nodes of the chain, and the slots the fresh nodes were given
ChainNodes == temps \ handed
FreshSlots == handed

\* C18: after the scenario no destructor has run, the fresh nodes are in
\* the slots of the chain, and active_node_count is the length of the chain.
C18_ChainSlotsReused ==
  ScenarioDone =>
    /\ dtor_epoch = 0 /\ \A i \in DOMAIN dtor : dtor[i] = 0
    /\ FreshSlots = ChainNodes
    /\ ACTIVE_NODE_COUNT = ChainLength

\* C18, as the code has it: the collection marked the chain, so the lazy
\* sweep passes its slots and only clears their Marked flags; no
\* destructor runs on them, the fresh nodes are in as many other slots,
\* and active_node_count counts the chain and the fresh nodes.
C18_ChainSlotsKept ==
  ScenarioDone =>
    /\ \A i \in ChainNodes : dtor[i] = 0 /\ ~slots[i].nd
    /\ FreshSlots \cap ChainNodes = {}
    /\ Cardinality(FreshSlots) = ChainLength
    /\ Cardinality(ChainNodes) = ChainLength
    /\ ACTIVE_NODE_COUNT = 2 * ChainLength

C18_Witness == ScenarioDone /\ ChainLength = MaxChain - 1

\* the root of live vectors was dropped after a collection had copied them:
\* no node was allocated since that collection and insert_child was never
\* called, so the storage in use is that of the copies
RootDroppedAfterCollection ==
  /\ last.op = "unroot" /\ status = "ok" /\ GC_COUNT >= 1
  /\ roots = << >> /\ handed = {} /\ inserts = 0
  /\ storage_allocator.storage_in_use > 0

\* the requests of whole words that fit a bucket of the heap H
FittingRequests(H) ==
  { bytes \in 1..Huge :
      /\ bytes % WORD_SIZE = 0
      /\ \E b \in DOMAIN H.bk : H.bk[b].cap >= bytes }

\* C19: when vectors were copied by a collection, their root is dropped
\* and a second collection runs, storage_in_use is 0 after it and an
\* allocate_storage request that fits an existing bucket is served without
\* a new bucket.
C19_StorageReused ==
  [][ RootDroppedAfterCollection /\ GcStep /\ status' = "ok" =>
        /\ storage_allocator'.storage_in_use = 0
        /\ \A bytes \in FittingRequests(Heap') :
             allocate_storage(Heap', bytes).sa.bucket_count = storage_allocator'.bucket_count ]_vars

\* C20: a collection marks every node that the linked roots reach and no
\* other node; a RootContainer that was dropped marks nothing, so a node
\* that only a dropped root reached is left unmarked.
C20_DroppedRootMarksNothing ==
  [][ GcStep /\ status' = "ok" =>
        \A n \in DOMAIN slots : slots[n].init => (slots'[n].marked <=> n \in Rooted) ]_vars

\* roots 1 and 2 were created and root 1 was dropped: the collection marked
\* the node of root 2 and left another node unmarked
C20_Witness ==
  /\ last.op = "gc" /\ status = "ok"
  /\ DOMAIN roots = {2}
  /\ slots[roots[2].node].marked
  /\ \E n \in DOMAIN slots : slots[n].init /\ n # roots[2].node /\ ~slots[n].marked

\* the vectors the mutator can reach: the argument vectors of the nodes it
\* can name
KnownVectors ==
  { slots[n].args : n \in { m \in Known : IsVector(Heap, m) /\ VecWellFormed(Heap, slots[m].args) } }

\* from_slice(&v[0..k]) is a vector of length k and capacity k whose
\* elements are those of the slice, in order
SliceRoundTrip(H, p, k) ==
  Bind(from_slice(H, VecDataPtr(H, p), k), LAMBDA H1 :
    /\ H1.status = "ok"
    /\ VecLength(H1, H1.res) = k
    /\ VecCapacity(H1, H1.res) = k
    /\ Elements(H1, H1.res) = SubSeq(Elements(H, p), 1, k))

\* v.copy_with_capacity(k) has capacity k and length min(v.length, k), and
\* below that length the elements of v
CopyRoundTrip(H, p, k, cached) ==
  Bind(copy_with_capacity(H, p, k, cached), LAMBDA H1 :
    /\ H1.status = "ok"
    /\ VecCapacity(H1, H1.res) = k
    /\ VecLength(H1, H1.res) = Min(VecLength(H, p), k)
    /\ Elements(H1, H1.res) = SubSeq(Elements(H, p), 1, Min(VecLength(H, p), k)))

\* C21: for every slice s, from_slice(s) has length = capacity = |s| and
\* iter() yields the elements of s in order; for every vector v and every
\* k, v.copy_with_capacity(k) has capacity k, length min(v.length, k) and
\* the elements of v below that length.
C21_VectorRoundTrip ==
  status = "ok" =>
    \A p \in KnownVectors :
      /\ \A k \in 0..VecLength(Heap, p) : SliceRoundTrip(Heap, p, k)
      /\ \A k \in 0..MaxCopyCapacity : \A cached \in BOOLEAN : CopyRoundTrip(Heap, p, k, cached)

\* the same, for the vectors of a program that has not collected yet
C21_RoundTripBeforeCollection ==
  status = "ok" /\ GC_COUNT = 0 =>
    \A p \in KnownVectors :
      /\ \A k \in 0..VecLength(Heap, p) : SliceRoundTrip(Heap, p, k)
      /\ \A k \in 0..MaxCopyCapacity : \A cached \in BOOLEAN : CopyRoundTrip(Heap, p, k, cached)

C21_Witness ==
  /\ status = "ok" /\ GC_COUNT = 0
  /\ \E p \in KnownVectors : VecLength(Heap, p) = 2 /\ VecCapacity(Heap, p) = 2

\* the nodes among `known` whose args field points to a GCVector
VectorNodes(H, known) ==
  { n \in known \cap DOMAIN H.slots : H.slots[n].init /\ H.slots[n].args.k = "addr" }

\* the step is a push on a vector whose length equals its capacity
PushOnFull ==
  /\ last'.op = "insert"
  /\ IsVector(Heap, last'.node)
  /\ VecWellFormed(Heap, slots[last'.node].args)
  /\ VecLength(Heap, slots[last'.node].args) = VecCapacity(Heap, slots[last'.node].args)

\* such a push panics and writes nothing
PushOnFullPanics ==
  PushOnFull => status' = "panic" /\ buckets' = buckets /\ slots' = slots

\* every vector a root reaches has length <= capacity
LengthWithinCapacity ==
  status = "ok" => \A n \in VectorNodes(Heap, Rooted) :
    VecLength(Heap, slots[n].args) <= VecCapacity(Heap, slots[n].args)

\* no step gives the vector of a node a larger capacity (the relocation
\* copy of a collection keeps the capacity)
NeverGrown ==
  status' = "ok" => \A n \in VectorNodes(Heap, Rooted) \cap VectorNodes(Heap', Rooted') :
    VecCapacity(Heap', slots'[n].args) <= VecCapacity(Heap, slots[n].args)

\* C22: push on a vector whose length equals its capacity panics and
\* leaves the vector's length and elements unchanged; length <= capacity
\* holds for every GCVector in every reachable state, and a vector is
\* never grown outside the relocation copy of a collection.
C22_PushNeverGrows ==
  [][ PushOnFullPanics /\ LengthWithinCapacity' /\ NeverGrown ]_vars

\* the first part alone: what push does on a full vector
C22_PushOnFullPanics == [][ PushOnFullPanics ]_vars

\* the step is a call of allocate_storage with a byte count that is not a
\* multiple of the word size
MisalignedRequest == last'.op = "storage" /\ last'.node % WORD_SIZE # 0

\* C23: allocate_storage called with a byte count that is not a multiple
\* of the machine word size panics before any allocator state is changed:
\* storage_in_use, the flag and both bucket lists are as before the call.
C23_MisalignedRequestPanics ==
  [][ MisalignedRequest =>
        /\ status' = "panic"
        /\ storage_allocator' = storage_allocator
        /\ buckets' = buckets ]_vars

\* a misaligned request was made of an allocator that had storage in use
\* and buckets on both lists
C23_Witness ==
  /\ status = "panic" /\ last.op = "storage" /\ last.node % WORD_SIZE # 0
  /\ storage_allocator.storage_in_use > 0
  /\ storage_allocator.bucket_list # NoBucket
  /\ storage_allocator.unused_list # NoBucket

\* thread t holds the guards of both allocators
HoldsBoth(t) == mutex["node"] = t /\ mutex["storage"] = t

\* C24: each of the public helpers allocate_dag_node, ok_to_collect_garbage
\* and want_to_collect_garbage locks exactly one allocator mutex during its
\* execution: it never holds or takes both the mutex of the node allocator
\* and the mutex of the storage allocator.
C24_OneAllocatorMutexPerHelper ==
  \A t \in Threads :
    /\ took[t].call \in Helpers => Cardinality(took[t].locked) = 1
    /\ ~HoldsBoth(t)

\* C24 amended: allocate_dag_node and want_to_collect_garbage lock the
\* mutex of the node allocator only; ok_to_collect_garbage locks it and,
\* while it holds that guard, also locks the mutex of the storage
\* allocator.  The storage mutex is only ever held by a thread that is in
\* ok_to_collect_garbage and holds the node mutex.
C24_StorageMutexUnderNodeMutex ==
  \A t \in Threads :
    /\ took[t].call \in {"allocate_dag_node", "want_to_collect_garbage"} =>
         took[t].locked = {"node"}
    /\ took[t].call = "ok_to_collect_garbage" =>
         "node" \in took[t].locked /\ took[t].locked \subseteq {"node", "storage"}
    /\ mutex["storage"] = t =>
         mutex["node"] = t /\ took[t].call = "ok_to_collect_garbage"
    /\ pc[t] # "idle" <=> mutex["node"] = t

\* one thread is inside a collection and holds both guards after the other
\* has allocated a node
C24_Witness ==
  /\ HoldsBoth(1) /\ pc[1] = "prepare_to_mark"
  /\ took[2].call = "allocate_dag_node" /\ pc[2] = "idle"

\* the slots that were Marked before the step and are not Marked after it,
\* other than the slot the step returned: the lazy sweep passed over them
PassedOver == { n \in DOMAIN slots \ {last'.node} : slots[n].init /\ slots[n].marked /\ ~slots'[n].marked }

\* C25: when the lazy sweep passes over a slot with Marked set, it clears
\* only the Marked bit: NeedsDestruction, the args pointer and the symbol
\* are unchanged, so the argument shape read through (args,
\* NeedsDestruction) is the same before and after; this holds for the scan
\* in allocate_dag_node and for the scan in slow_new_dag_node.
C25_LazySweepClearsOnlyMarked ==
  [][ last'.op = "new" /\ status' = "ok" =>
        \A n \in PassedOver :
          /\ slots'[n] = [slots[n] EXCEPT !.marked = FALSE]
          /\ Shape(slots'[n]) = Shape(slots[n]) ]_vars

\* the slots with Marked set
MarkedSlots(H) == { n \in DOMAIN H.slots : H.slots[n].init /\ H.slots[n].marked }

\* C26: immediately after collect_garbage completes, the set of slots with
\* Marked set equals the set of nodes reachable from the registered
\* RootContainers, and active_node_count equals the number of distinct
\* such nodes (a shared node is counted once); the mark traversal
\* terminates on every DAG.
C26_MarkIsExact ==
  [][ GcStep /\ status' = "ok" =>
        /\ MarkedSlots(Heap') = Rooted'
        /\ ACTIVE_NODE_COUNT' = Cardinality(Rooted') ]_vars

\* the same of the nodes that the roots reached when the collection began
C26_MarkExactAtEntry ==
  [][ GcStep /\ status' = "ok" =>
        /\ MarkedSlots(Heap') = Rooted
        /\ ACTIVE_NODE_COUNT' = Cardinality(Rooted) ]_vars

\* the slots strictly before the allocation cursor: those of the arenas
\* that precede current_arena and those of current_arena before next_node
BeforeCursor(na) ==
  IF na.current_arena = NullPtr THEN {}
  ELSE 0 .. (SlotAt(na.current_arena, na.next_node) - 1)

\* C27: in every state outside a collection, no slot strictly before the
\* allocation cursor is Marked.
C27_SweptPrefix ==
  status = "ok" =>
    \A n \in BeforeCursor(node_allocator) \cap DOMAIN slots : slots[n].init /\ ~slots[n].marked

\* the cursor has passed slots that a collection had marked, in the second
\* arena
C27_Witness ==
  /\ status = "ok" /\ GC_COUNT >= 1 /\ last.op = "new"
  /\ node_allocator.current_arena >= 1
  /\ (BeforeCursor(node_allocator) \cap Rooted) \ handed # {}

\* C28: when the mark phase of a collection begins, after sweep_arenas has
\* tidied the unswept tail, no slot in any arena has Marked set, whatever
\* the cursor position and the value of current_arena_past_active_arena
\* at the entry of the collection.
C28_NoMarkWhenMarkBegins ==
  status = "ok" /\ WantsCollection /\ first_arena(node_allocator) # NullPtr =>
    \E H \in { GcSwept(Heap) } : H.status = "ok" => MarkedSlots(H) = {}

\* a collection is about to begin with the cursor past the first slot and
\* Marked slots in the tail that the lazy sweep has not reached
C28_Witness ==
  /\ status = "ok" /\ WantsCollection /\ first_arena(node_allocator) # NullPtr
  /\ ~node_allocator.current_arena_past_active_arena
  /\ node_allocator.next_node > 0
  /\ MarkedSlots(Heap) # {}

\* C29: whenever sweep_arenas runs, next_node does not point to the first
\* slot of current_arena, so that next_node - 1 is a slot of
\* current_arena; and after sweep_arenas last_active_node is a slot inside
\* last_active_arena.  This holds also for two collections with no node
\* allocation between them.
C29_HighWaterIsASlot ==
  [][ GcStep =>
        /\ node_allocator.next_node >= 1
        /\ status' = "ok" =>
             /\ node_allocator'.last_active_arena \in 0..(node_allocator.arena_count - 1)
             /\ node_allocator'.last_active_node \in 0..(ARENA_SIZE - 1) ]_vars

\* the same of the collections that begin after a node was allocated
C29_HighWaterAfterAllocation ==
  [][ GcStep /\ handed # {} =>
        /\ node_allocator.next_node >= 1
        /\ status' = "ok" =>
             /\ node_allocator'.last_active_arena \in 0..(node_allocator.arena_count - 1)
             /\ node_allocator'.last_active_node \in 0..(ARENA_SIZE - 1) ]_vars

\* the high-water mark (last_active_arena, last_active_node) as a global
\* slot index
HighWater(na) == SlotAt(na.last_active_arena, na.last_active_node)

\* C30: in every state outside a collection, every slot with Marked set
\* lies at or before (last_active_arena, last_active_node) in arena-list
\* order; hence whenever current_arena_past_active_arena is true no slot at
\* or after the cursor is Marked, and whenever it is false
\* last_active_arena is reached from current_arena by next_arena links.
C30_HighWaterSound ==
  status = "ok" =>
    /\ \A n \in MarkedSlots(Heap) :
         node_allocator.last_active_arena # NullPtr /\ n <= HighWater(node_allocator)
    /\ node_allocator.current_arena_past_active_arena =>
         MarkedSlots(Heap) \subseteq BeforeCursor(node_allocator)
    /\ ~node_allocator.current_arena_past_active_arena =>
         /\ node_allocator.current_arena <= node_allocator.last_active_arena
         /\ node_allocator.last_active_arena < node_allocator.arena_count

\* after a collection the cursor has moved past the high-water mark into a
\* later arena while slots the collection marked
C30_Witness ==
  /\ status = "ok" /\ GC_COUNT >= 1 /\ last.op = "new"
  /\ node_allocator.current_arena_past_active_arena
  /\ node_allocator.current_arena > node_allocator.last_active_arena
  /\ Rooted \ handed # {}

\* C31: every slot of a newly allocated arena is simple-reuse-eligible
\* before the lazy sweep first examines it: neither the lazy sweep nor
\* sweep_arenas ever reads the flags of a slot that nothing has written
\* since its arena was allocated.
C31_SweepReadsOnlyWrittenSlots == uninit_read = FALSE

\* the slots from the cursor to the end of the last arena, reserve included
CursorToEnd(na) ==
  IF na.current_arena = NullPtr THEN {}
  ELSE SlotAt(na.current_arena, na.next_node) .. SlotAt(last_arena(na), ARENA_SIZE - 1)

\* the slots of CursorToEnd that hold a written slot with Marked set
MarkedAhead == { i \in CursorToEnd(node_allocator) : slots[i].init /\ slots[i].marked }

\* the slots of CursorToEnd that nothing has written yet
UnwrittenAhead == { i \in CursorToEnd(node_allocator) : ~slots[i].init }

AppendsArena == node_allocator'.arena_count > node_allocator.arena_count

C32_ArenaOnlyWhenNeededAmongWritten ==
  [][ AllocStep /\ status = "ok" /\ status' = "ok" /\ UnwrittenAhead = {} =>
        IF AppendsArena
        THEN CursorToEnd(node_allocator) = MarkedAhead
        ELSE /\ last'.node \in CursorToEnd(node_allocator) \ MarkedAhead
             /\ \A i \in CursorToEnd(node_allocator) \ MarkedAhead : last'.node <= i ]_vars

\* C33: when collect_garbage has run a collection to its end,
\* current_arena is first_arena, next_node is the first slot of that arena,
\* current_arena_past_active_arena and need_to_collect_garbage are false,
\* and end_pointer stops RESERVE_SIZE slots short of the end of the arena
\* exactly when the first arena is also the last one.
C33_GcReset ==
  last.op = "gc" /\ status = "ok" =>
    /\ first_arena(node_allocator) # NullPtr
    /\ node_allocator.current_arena = first_arena(node_allocator)
    /\ node_allocator.next_node = 0
    /\ ~node_allocator.current_arena_past_active_arena
    /\ ~node_allocator.need_to_collect_garbage
    /\ node_allocator.end_pointer =
         IF first_arena(node_allocator) = last_arena(node_allocator)
         THEN ARENA_SIZE - RESERVE_SIZE ELSE ARENA_SIZE

\* a collection that began with the cursor in the reserve of the only
\* arena, the flag set, and that ended with that arena still the only one
C33_Witness ==
  /\ last.op = "gc" /\ status = "ok"
  /\ node_allocator.arena_count = 1
  /\ node_allocator.end_pointer = ARENA_SIZE - RESERVE_SIZE
  /\ handed = {} /\ \A i \in DOMAIN slots : slots[i].init

\* a collection that ended with several arenas: no reserve is held back
\* in the first one
C33_WitnessSeveralArenas ==
  /\ last.op = "gc" /\ status = "ok"
  /\ node_allocator.arena_count >= 2
  /\ node_allocator.end_pointer = ARENA_SIZE

\* the byte counts the mutator's calls ask allocate_storage for
Requests == { 0, WORD_SIZE, VECTOR_HEADER_SIZE } \cup { k * NODE_PTR_SIZE : k \in 2..MaxVectorArity }

\* b is the first bucket of the list from `head` with room for `bytes`
IsFirstFit(H, head, b, bytes) ==
  LET chain == ChainOf(H, head)
  IN  \E i \in DOMAIN chain :
        /\ chain[i] = b /\ H.bk[b].bytes_free >= bytes
        /\ \A j \in 1..(i - 1) : H.bk[chain[j]].bytes_free < bytes

NoneFits(H, head, bytes) ==
  \A b \in SeqToSet(ChainOf(H, head)) : H.bk[b].bytes_free < bytes

\* the request was served by the bump allocation of bucket b as H0 has it
ServedFrom(H0, H, b, bytes) ==
  /\ H.res = AddrWord(b, H0.bk[b].next_free)
  /\ H.bk[b].next_free >= H0.bk[b].next_free + bytes
  /\ \A c \in DOMAIN H0.bk \ {b} : H.bk[c] = H0.bk[c]

\* what allocate_storage(bytes) does to the allocator of H0
SearchOrder(H0, bytes) ==
  \E H \in { allocate_storage(H0, bytes) } :
    /\ H.status = "ok"
    /\ IF ~NoneFits(H0, H0.sa.bucket_list, bytes)
       THEN \E b \in DOMAIN H0.bk :
              /\ IsFirstFit(H0, H0.sa.bucket_list, b, bytes)
              /\ ServedFrom(H0, H, b, bytes)
              /\ H.bk[b].next_bucket = H0.bk[b].next_bucket
              /\ H.sa.bucket_list = H0.sa.bucket_list
              /\ H.sa.unused_list = H0.sa.unused_list
              /\ DOMAIN H.bk = DOMAIN H0.bk
              /\ H.sa.bucket_count = H0.sa.bucket_count
       ELSE IF ~NoneFits(H0, H0.sa.unused_list, bytes)
       THEN \E b \in DOMAIN H0.bk :
              /\ IsFirstFit(H0, H0.sa.unused_list, b, bytes)
              /\ H.res = AddrWord(b, H0.bk[b].next_free)
              /\ H.bk[b].next_free >= H0.bk[b].next_free + bytes
              /\ b \notin SeqToSet(ChainOf(H, H.sa.unused_list))
              /\ SeqToSet(ChainOf(H, H.sa.unused_list)) =
                   SeqToSet(ChainOf(H0, H0.sa.unused_list)) \ {b}
              /\ H.sa.bucket_list = b
              /\ H.bk[b].next_bucket = H0.sa.bucket_list
              /\ DOMAIN H.bk = DOMAIN H0.bk
              /\ H.sa.bucket_count = H0.sa.bucket_count
       ELSE \E b \in DOMAIN H.bk \ DOMAIN H0.bk :
              /\ DOMAIN H.bk = DOMAIN H0.bk \cup {b}
              /\ H.bk[b].cap = Max(MIN_BUCKET_SIZE, BUCKET_MULTIPLIER * bytes)
              /\ H.res = AddrWord(b, 0)
              /\ H.sa.bucket_list = b
              /\ H.bk[b].next_bucket = H0.sa.bucket_list
              /\ H.sa.unused_list = H0.sa.unused_list
              /\ H.sa.bucket_count = H0.sa.bucket_count + 1
              /\ \A c \in DOMAIN H0.bk : H.bk[c] = H0.bk[c]

InUseOnly(H) ==
  LET inuse  == ChainOf(H, H.sa.bucket_list)
      unused == SeqToSet(ChainOf(H, H.sa.unused_list))
      own    == { i \in DOMAIN inuse : \A j \in 1..i : inuse[j] \notin unused }
  IN  IF own = {} THEN [H EXCEPT !.sa.bucket_list = NoBucket]
      ELSE [H EXCEPT !.bk[inuse[Cardinality(own)]].next_bucket = NoBucket]

\* the search order on an allocator whose two lists share no bucket, where
\* a bucket of the unused list can be the first that fits
SearchOrderOnDisjointLists ==
  status = "ok" => \A bytes \in Requests : SearchOrder(InUseOnly(Heap), bytes)

UnusedBucketWouldServe ==
  /\ status = "ok"
  /\ \E bytes \in Requests :
       /\ NoneFits(InUseOnly(Heap), InUseOnly(Heap).sa.bucket_list, bytes)
       /\ ~NoneFits(InUseOnly(Heap), storage_allocator.unused_list, bytes)
       /\ storage_allocator.unused_list # NoBucket
       /\ buckets[storage_allocator.unused_list].bytes_free < bytes

\* a bucket of the unused list fits a request that no bucket of the
\* in-use list fits
UnusedBucketServes ==
  \E bytes \in Requests :
    /\ NoneFits(Heap, storage_allocator.bucket_list, bytes)
    /\ ~NoneFits(Heap, storage_allocator.unused_list, bytes)

\* the list from `head` visits no bucket twice
Acyclic(H, head) ==
  LET chain == ChainOf(H, head)
  IN  \A i, j \in DOMAIN chain : chain[i] = chain[j] => i = j

\* C35: outside a collection every bucket ever created is on exactly one
\* of the in-use list and the unused list, both lists are acyclic, and
\* bucket_count is the sum of their lengths.
C35_BucketConservation ==
  status = "ok" =>
    /\ \A b \in DOMAIN buckets : (b \in InUseList(Heap)) # (b \in UnusedList(Heap))
    /\ Acyclic(Heap, storage_allocator.bucket_list)
    /\ Acyclic(Heap, storage_allocator.unused_list)
    /\ storage_allocator.bucket_count =
         Len(ChainOf(Heap, storage_allocator.bucket_list))
           + Len(ChainOf(Heap, storage_allocator.unused_list))

\* the part of it that holds: the lists are acyclic and every bucket on a
\* list was created and counted
BucketListsAcyclic ==
  status = "ok" =>
    /\ Acyclic(Heap, storage_allocator.bucket_list)
    /\ Acyclic(Heap, storage_allocator.unused_list)
    /\ InUseList(Heap) \cup UnusedList(Heap) \subseteq DOMAIN buckets
    /\ storage_allocator.bucket_count = Cardinality(DOMAIN buckets)

\* two byte regions of bucket storage share a byte
Overlap(r, s) ==
  /\ r.start.k = "addr" /\ s.start.k = "addr"
  /\ r.start.a = s.start.a
  /\ r.start.b < s.start.b + s.size
  /\ s.start.b < r.start.b + r.size

\* the nodes the mutator can name whose args is a vector
LiveVectorNodes(H, known) == { n \in known \cap DOMAIN H.slots : IsVector(H, n) }

\* no two of the nodes own the same vector or overlapping storage
SingleOwner(H, known) ==
  \A n, m \in LiveVectorNodes(H, known) :
    n # m => \A r \in VectorRegions(H, n), s \in VectorRegions(H, m) : ~Overlap(r, s)

\* C36: in every reachable state no two distinct live nodes have
\* vector-shaped args that refer to the same GCVector or to overlapping
\* storage, and after the mark-time copy no reachable node's args holds the
\* old address of a vector.
C36_SingleOwner ==
  [][ status' = "ok" =>
        /\ SingleOwner(Heap', temps' \cup Rooted')
        /\ GcStep =>
             \A n \in LiveVectorNodes(Heap', Rooted'), m \in LiveVectorNodes(Heap, Rooted) :
               slots'[n].args # slots[m].args ]_vars

\* the same up to the first collection
SingleOwnerBeforeCollection ==
  status = "ok" /\ GC_COUNT = 0 => SingleOwner(Heap, Known)

\* DagNode::len
len(H, n) ==
  LET slot == H.slots[n]
  IN  IF slot.args = NullWord THEN 0
      ELSE IF slot.nd THEN VecLength(H, slot.args)
      ELSE 1

\* DagNode::iter_args panics: the symbol is null, or the assertion of the
\* branch it takes fails (empty: arity = 0, vector: arity > 1, single:
\* arity = 1)
iter_args_panics(H, n) ==
  LET slot  == H.slots[n]
      arity == slot.symbol
  IN  \/ slot.symbol = JunkSymbol
      \/ slot.args = NullWord /\ arity # 0
      \/ slot.args # NullWord /\ slot.nd /\ ~(arity > 1)
      \/ slot.args # NullWord /\ ~slot.nd /\ arity # 1

\* the step is a call of insert_child that returned
InsertStep == last'.op = "insert" /\ status = "ok" /\ status' = "ok"

\* what insert_child does to the representation of the arguments of n
Promotes(n) ==
  /\ Shape(slots[n]) = "empty" => Shape(slots'[n]) = "single"
  /\ Shape(slots[n]) = "single" =>
       /\ Shape(slots'[n]) = "vector" /\ slots'[n].nd
       /\ VecLength(Heap', slots'[n].args) = 2
  /\ Shape(slots[n]) = "vector" =>
       /\ Shape(slots'[n]) = "vector"
       /\ slots'[n].args = slots[n].args
  /\ len(Heap', n) = len(Heap, n) + 1
  /\ \E child \in DOMAIN slots :
       iter_args(Heap', n) = Append(iter_args(Heap, n), NodeWord(child))

\* C37: insert_child makes the args of a node without children a single
\* child reference, those of a single-child node a vector of the two
\* children with NeedsDestruction set, and appends to a vector; in every
\* case len() grows by one, the children inserted before keep their
\* positions, and iter_args yields the children in insertion order.
C37_InsertChildPromotes ==
  [][ InsertStep => Promotes(last'.node) /\ ~iter_args_panics(Heap', last'.node) ]_vars

\* the same without the call of iter_args, up to the first collection
PromotesBeforeCollection ==
  [][ InsertStep /\ GC_COUNT = 0 => Promotes(last'.node) ]_vars

\* the same for the nodes whose children do not outnumber the arity of
\* their symbol
PromotesWithinArity ==
  [][ InsertStep /\ GC_COUNT = 0 /\ len(Heap', last'.node) <= slots[last'.node].symbol =>
        Promotes(last'.node) /\ ~iter_args_panics(Heap', last'.node) ]_vars

\* the step is a call of insert_child, whether it returned or not
InsertCall == last'.op = "insert" /\ status = "ok"

\* insert_child on n succeeds while n has fewer children than the arity of
\* its symbol, and aborts once it has that many
WithinArity(n) ==
  IF len(Heap, n) < slots[n].symbol
  THEN status' = "ok" /\ len(Heap', n) = len(Heap, n) + 1
  ELSE status' = "panic"

\* C38: argument storage is sized from the arity of the symbol: on a node
\* created by with_theory for a symbol of arity a >= 0 the first a calls
\* of insert_child succeed and the next one aborts, so a node never has
\* more children than the arity of its symbol.
C38_SizedFromArity ==
  [][ InsertCall => WithinArity(last'.node) ]_vars

\* the same for the symbols of arity > 1, whose nodes get their vector
\* from with_theory, up to the first collection
SizedFromArityOfVectorNodes ==
  [][ InsertCall /\ slots[last'.node].symbol > 1 /\ GC_COUNT = 0 => WithinArity(last'.node) ]_vars

\* a node has more children than the arity of its symbol
MoreChildrenThanArity ==
  /\ status = "ok" /\ GC_COUNT = 0 /\ last.op = "insert"
  /\ len(Heap, last.node) > slots[last.node].symbol

\* the RootContainers the list visits from `root` on, following next
RECURSIVE RootChain(_, _, _)
RootChain(rs, root, fuel) ==
  IF root = NoRoot \/ root \notin DOMAIN rs \/ fuel = 0 THEN << >>
  ELSE << root >> \o RootChain(rs, rs[root].next, fuel - 1)

RootList(rs, head) == RootChain(rs, head, Cardinality(DOMAIN rs) + 1)

\* s without its entries equal to x
RECURSIVE Without(_, _)
Without(s, x) ==
  IF s = << >> THEN << >>
  ELSE IF Head(s) = x THEN Without(Tail(s), x)
  ELSE << Head(s) >> \o Without(Tail(s), x)

\* the list from `head` is acyclic and holds exactly the containers that
\* exist, the head has no prev, and prev mirrors next
RootSetWellFormed(rs, head) ==
  LET list == RootList(rs, head)
  IN  /\ head = NoRoot \/ head \in DOMAIN rs
      /\ \A i, j \in DOMAIN list : list[i] = list[j] => i = j
      /\ SeqToSet(list) = DOMAIN rs
      /\ head # NoRoot => rs[head].prev = NoRoot
      /\ \A e \in DOMAIN rs :
           /\ rs[e].next # NoRoot => rs[e].next \in DOMAIN rs /\ rs[rs[e].next].prev = e
           /\ rs[e].prev # NoRoot => rs[e].prev \in DOMAIN rs /\ rs[rs[e].prev].next = e

\* C39: after any sequence of RootContainer::new and drop the list from
\* LIST_HEAD is acyclic and holds exactly the RootContainers created and
\* not yet dropped, the most recently created first; the head's prev is
\* empty and e.next.prev = e for every entry with a successor; so the
\* loop of mark_roots ends and visits every registered root exactly once.
C39_RootSetWellFormed ==
  [][ /\ RootSetWellFormed(roots', LIST_HEAD')
      /\ last'.op = "root" =>
           \E r \in DOMAIN roots' \ DOMAIN roots :
             RootList(roots', LIST_HEAD') = << r >> \o RootList(roots, LIST_HEAD)
      /\ last'.op = "unroot" =>
           \E r \in DOMAIN roots \ DOMAIN roots' :
             RootList(roots', LIST_HEAD') = Without(RootList(roots, LIST_HEAD), r)
      /\ GcStep /\ status' = "ok" =>
           \A r \in DOMAIN roots : slots'[roots[r].node].marked ]_vars

\* three RootContainers were linked, the one in the middle of the list
\* was dropped, and a collection then marked the nodes of the other two
C39_Witness ==
  /\ status = "ok" /\ last.op = "gc"
  /\ DOMAIN roots = {1, 3}
  /\ RootList(roots, LIST_HEAD) = << 3, 1 >>
  /\ roots[1].node # roots[3].node
  /\ slots[roots[1].node].marked /\ slots[roots[3].node].marked

\* the step is a call of RootContainer::new or a drop of a RootContainer
RootCall == last'.op \in {"root", "unroot"} /\ status = "ok"

\* another thread holds the guard of the root list
RootListBusy == mutex["roots"] # NoThread

\* C40: the mutex of the root list serializes access: a thread that
\* creates or drops a RootContainer while another thread holds the mutex,
\* as mark_roots does during a collection, waits and then completes its
\* link or unlink; it never fails because the mutex is held.
C40_RootListMutexWaits ==
  [][ RootCall => status' = "ok" /\ roots' # roots ]_vars

\* what the code does: the call made while the guard is held panics, and
\* the call made while it is free links or unlinks
RootCallPanicsWhenHeld ==
  [][ RootCall =>
        IF RootListBusy THEN status' = "panic" /\ roots' = roots
        ELSE status' = "ok" /\ RootSetWellFormed(roots', LIST_HEAD') ]_vars

\* a thread is inside mark_roots and another one is free to create or
\* drop a RootContainer
MarkingWhileIdle ==
  /\ status = "ok"
  /\ \E t, u \in Threads : t # u /\ pc[t] = "mark_roots" /\ pc[u] = "idle"
  /\ roots # << >>

====
